---------------------------- MODULE Spec2Model ----------------------------
(***************************************************************************)
(* Journalite: the task scheduling and categorization engine.              *)
(*                                                                         *)
(* Text is modelled as a sequence of one-character strings, so that the    *)
(* regular expressions of utils/datePatterns.ts and the string comparisons *)
(* (<, <=, ===, Array.prototype.sort) of services/TaskService.ts are       *)
(* computed character by character, as the JavaScript runtime does.        *)
(* null is modelled by the empty sequence: the code only ever tests a date *)
(* field for truthiness, and "" and null are both falsy.                   *)
(***************************************************************************)
EXTENDS Integers, Sequences, FiniteSets, TLC

VARIABLES
    vault,      \* the markdown files of the vault (a set of files, unique paths)
    clock,      \* days elapsed on the wall clock since StartDate
    result,     \* value returned by the last getTasksByCategory pass, or NoResult
    window,     \* classifier input: a Schedulable {startDate, dueDate} with done flag
    dateStr,    \* a date text: the date the window is tested on, or the text
                \* parseDate is applied to
    verdict,    \* classifier output, or NoVerdict
    input,      \* input of a function applied on its own: the pieces a line of
                \* text is made of, a (year, month), a list of task items
    parsed      \* its output, or NotParsed

vars == <<vault, clock, result, window, dateStr, verdict, input, parsed>>

Null == <<>>

(***************************************************************************)
(* Characters and strings                                                  *)
(***************************************************************************)
Digit == <<"0", "1", "2", "3", "4", "5", "6", "7", "8", "9">>

DigitSet == {Digit[i] : i \in 1..10}

\* \d
IsDigit(c) == c \in DigitSet

\* \s (the whitespace that occurs in the modelled texts)
IsSpace(c) == c \in {" ", "\t"}

DigitValue(c) == CHOOSE v \in 0..9 : Digit[v + 1] = c

\* UTF-16 code unit of a character
Code(c) ==
    CASE c = "\t" -> 9
      [] c = " " -> 32
      [] c = "-" -> 45
      [] c = "." -> 46
      [] c = "/" -> 47
      [] IsDigit(c) -> 48 + DigitValue(c)
      [] c = "@" -> 64
      [] c = "[" -> 91
      [] c = "]" -> 93
      [] c = "a" -> 97
      [] c = "b" -> 98
      [] c = "d" -> 100
      [] c = "m" -> 109
      [] c = "x" -> 120

RECURSIVE StrLessFrom(_, _, _)
StrLessFrom(a, b, i) ==
    IF i > Len(b) THEN FALSE
    ELSE IF i > Len(a) THEN TRUE
    ELSE IF Code(a[i]) # Code(b[i]) THEN Code(a[i]) < Code(b[i])
    ELSE StrLessFrom(a, b, i + 1)

\* a < b on JavaScript strings: lexicographic on code units
StrLess(a, b) == StrLessFrom(a, b, 1)

\* a <= b on JavaScript strings
StrLeq(a, b) == a = b \/ StrLess(a, b)

RECURSIVE SkipSpace(_, _)
\* first index >= i of s that holds no whitespace (Len(s) + 1 when none)
SkipSpace(s, i) ==
    IF i <= Len(s) /\ IsSpace(s[i]) THEN SkipSpace(s, i + 1) ELSE i

RECURSIVE SkipSpaceBack(_, _)
\* last index <= i of s that holds no whitespace (0 when none)
SkipSpaceBack(s, i) ==
    IF i >= 1 /\ IsSpace(s[i]) THEN SkipSpaceBack(s, i - 1) ELSE i

\* String.prototype.trim
Trim(s) == SubSeq(s, SkipSpace(s, 1), SkipSpaceBack(s, Len(s)))

\* text.slice(0, index), index counted from 0
Slice0(s, index) == SubSeq(s, 1, index)

\* \s*$ from index i on
OnlySpaceFrom(s, i) == \A k \in i..Len(s) : IsSpace(s[k])

StartsWith(s, p) == Len(p) <= Len(s) /\ SubSeq(s, 1, Len(p)) = p

EndsWith(s, p) == Len(p) <= Len(s) /\ SubSeq(s, Len(s) - Len(p) + 1, Len(s)) = p

RECURSIVE ToDecimal(_)
\* String(n) for a natural number n
ToDecimal(n) ==
    IF n < 10 THEN <<Digit[n + 1]>>
    ELSE ToDecimal(n \div 10) \o <<Digit[(n % 10) + 1]>>

\* s.padStart(2, "0")
PadStart2(s) == IF Len(s) >= 2 THEN s ELSE IF Len(s) = 1 THEN <<"0">> \o s ELSE <<"0", "0">>

RECURSIVE ToNumber(_)
\* Number(s) for a string of digits
ToNumber(s) ==
    IF Len(s) = 0 THEN 0
    ELSE 10 * ToNumber(SubSeq(s, 1, Len(s) - 1)) + DigitValue(s[Len(s)])

RECURSIVE Split(_, _)
\* s.split(sep) for a one-character separator
Split(s, sep) ==
    IF \E i \in 1..Len(s) : s[i] = sep
    THEN LET i == CHOOSE k \in 1..Len(s) : s[k] = sep /\ \A j \in 1..(k - 1) : s[j] # sep
         IN  <<SubSeq(s, 1, i - 1)>> \o Split(SubSeq(s, i + 1, Len(s)), sep)
    ELSE <<s>>

RECURSIVE SortStrings(_)
\* Array.from(set).sort(): ascending in code-unit order
SortStrings(S) ==
    IF S = {} THEN <<>>
    ELSE LET least == CHOOSE a \in S : \A b \in S : StrLeq(a, b)
         IN  <<least>> \o SortStrings(S \ {least})

\* the elements of a sequence
Range(s) == {s[i] : i \in 1..Len(s)}

(***************************************************************************)
(* Date codec (utils/datePatterns.ts)                                      *)
(* A Date is a calendar day [year, month, day], month counted from 1.      *)
(***************************************************************************)
IsLeapYear(y) == (y % 4 = 0 /\ y % 100 # 0) \/ y % 400 = 0

DaysInMonth(y, m) ==
    IF m = 2 THEN (IF IsLeapYear(y) THEN 29 ELSE 28)
    ELSE IF m \in {4, 6, 9, 11} THEN 30 ELSE 31

\* the day after d
NextDay(d) ==
    IF d.day < DaysInMonth(d.year, d.month) THEN [d EXCEPT !.day = d.day + 1]
    ELSE IF d.month < 12 THEN [year |-> d.year, month |-> d.month + 1, day |-> 1]
    ELSE [year |-> d.year + 1, month |-> 1, day |-> 1]

RECURSIVE addDays(_, _)
\* result.setDate(result.getDate() + days), days >= 0: the overflow rolls into
\* the following months and years
addDays(date, days) == IF days = 0 THEN date ELSE addDays(NextDay(date), days - 1)

\* `${year}-${month}-${day}` with month and day padded to two digits
formatDate(date) ==
    ToDecimal(date.year) \o <<"-">> \o PadStart2(ToDecimal(date.month))
        \o <<"-">> \o PadStart2(ToDecimal(date.day))

\* the day before d
PrevDay(d) ==
    IF d.day > 1 THEN [d EXCEPT !.day = d.day - 1]
    ELSE IF d.month > 1
    THEN [year |-> d.year, month |-> d.month - 1, day |-> DaysInMonth(d.year, d.month - 1)]
    ELSE [year |-> d.year - 1, month |-> 12, day |-> 31]

\* Number(part) for a part of the split text (undefined when the part is
\* missing): a number, or NaN. Whitespace around the digits is ignored and the
\* empty string is 0.
Number(parts, k) ==
    IF k > Len(parts) THEN [nan |-> TRUE, value |-> 0]
    ELSE LET t == Trim(parts[k])
         IN  IF \A i \in 1..Len(t) : IsDigit(t[i])
             THEN [nan |-> FALSE, value |-> ToNumber(t)]
             ELSE [nan |-> TRUE, value |-> 0]

\* the Date whose time value is NaN ("Invalid Date"); no calendar day has month 0
InvalidDate == [year |-> 0, month |-> 0, day |-> 0]

\* new Date(year, monthIndex, day) for day >= 0: a year from 0 to 99 counts
\* from 1900, a month index outside 0..11 and a day outside the month roll over
NewDate(year, monthIndex, day) ==
    LET y == (IF year \in 0..99 THEN 1900 + year ELSE year) + (monthIndex \div 12)
        first == [year |-> y, month |-> (monthIndex % 12) + 1, day |-> 1]
    IN  IF day = 0 THEN PrevDay(first) ELSE addDays(first, day - 1)

\* dateStr.split("-").map(Number), then new Date(year, month - 1, day): no
\* test of the form of the text, and nothing is thrown
parseDate(s) ==
    LET parts == Split(s, "-")
        year == Number(parts, 1)
        month == Number(parts, 2)
        day == Number(parts, 3)
    IN  IF year.nan \/ month.nan \/ day.nan THEN InvalidDate
        ELSE NewDate(year.value, month.value - 1, day.value)

\* date.getDay(): the weekday of a calendar day, Sunday = 0
getDay(d) ==
    LET shift == <<0, 3, 2, 5, 0, 3, 5, 1, 4, 6, 2, 4>>
        y == IF d.month < 3 THEN d.year - 1 ELSE d.year
    IN  (y + (y \div 4) - (y \div 100) + (y \div 400) + shift[d.month] + d.day) % 7

\* getFirstDayOfMonth and getLastDayOfMonth, month counted from 0
getFirstDayOfMonth(year, month) == NewDate(year, month, 1)

getLastDayOfMonth(year, month) == NewDate(year, month + 1, 0)

\* the weeks cut from the cells: seven cells each, the last one filled up with
\* null; a cell is Null or the one-element sequence of its Date
WeeksOf(cells, fill) ==
    LET padded == cells \o [i \in 1..fill |-> Null]
    IN  [w \in 1..(Len(padded) \div 7) |-> SubSeq(padded, 7 * (w - 1) + 1, 7 * w)]

\* a faulty variant of getCalendarDays: the week in progress is filled up and
\* pushed even when it holds no cell
getCalendarDaysAlwaysFills(year, month) ==
    LET firstDay == getFirstDayOfMonth(year, month)
        lastDay == getLastDayOfMonth(year, month)
        cells == [i \in 1..getDay(firstDay) |-> Null]
                     \o [day \in 1..lastDay.day |-> <<NewDate(year, month, day)>>]
    IN  WeeksOf(cells, 7 - (Len(cells) % 7))

\* getCalendarDays: null cells up to the weekday of the first day, then one
\* cell per day 1..lastDay.getDate(), a week being pushed whenever it holds
\* seven cells; a last week that was begun is filled up with null
getCalendarDays(year, month) ==
    LET firstDay == getFirstDayOfMonth(year, month)
        lastDay == getLastDayOfMonth(year, month)
        cells == [i \in 1..getDay(firstDay) |-> Null]
                     \o [day \in 1..lastDay.day |-> <<NewDate(year, month, day)>>]
    IN  WeeksOf(cells, IF Len(cells) % 7 > 0 THEN 7 - (Len(cells) % 7) ELSE 0)

\* d1 is an earlier calendar day than d2
Earlier(d1, d2) ==
    \/ d1.year < d2.year
    \/ d1.year = d2.year /\ d1.month < d2.month
    \/ d1.year = d2.year /\ d1.month = d2.month /\ d1.day < d2.day

NotLater(d1, d2) == d1 = d2 \/ Earlier(d1, d2)

(***************************************************************************)
(* Annotation parser (utils/datePatterns.ts)                               *)
(***************************************************************************)
\* DATE = \d{4}-\d{2}-\d{2} matches s from index i on
DateAt(s, i) ==
    /\ i + 9 <= Len(s)
    /\ \A k \in {0, 1, 2, 3, 5, 6, 8, 9} : IsDigit(s[i + k])
    /\ s[i + 4] = "-"
    /\ s[i + 7] = "-"

\* the ten characters DATE matched at index i
DateGroup(s, i) == SubSeq(s, i, i + 9)

\* s holds ".." at index i
DotsAt(s, i) == i + 1 <= Len(s) /\ s[i] = "." /\ s[i + 1] = "."

\* index of the "@" that ends the \s* run starting at i, or 0
AtSign(s, i) ==
    LET j == SkipSpace(s, i)
    IN  IF j <= Len(s) /\ s[j] = "@" THEN j ELSE 0

\* \s*@(DATE)\.\.(DATE)\s*$ matches s from index i on
RangeAt(s, i) ==
    LET j == AtSign(s, i)
    IN  j > 0 /\ DateAt(s, j + 1) /\ DotsAt(s, j + 11) /\ DateAt(s, j + 13)
              /\ OnlySpaceFrom(s, j + 23)

\* \s*@(DATE)\.\.\s*$ matches s from index i on
StartOnlyAt(s, i) ==
    LET j == AtSign(s, i)
    IN  j > 0 /\ DateAt(s, j + 1) /\ DotsAt(s, j + 11) /\ OnlySpaceFrom(s, j + 13)

\* \s*@\.\.(DATE)\s*$ matches s from index i on
DueOnlyAt(s, i) ==
    LET j == AtSign(s, i)
    IN  j > 0 /\ DotsAt(s, j + 1) /\ DateAt(s, j + 3) /\ OnlySpaceFrom(s, j + 13)

\* \s*@(DATE)\s*$ matches s from index i on
SimpleAt(s, i) ==
    LET j == AtSign(s, i)
    IN  j > 0 /\ DateAt(s, j + 1) /\ OnlySpaceFrom(s, j + 11)

\* the pattern the code builds for one of the four annotation forms
PatternAt(pattern, s, i) ==
    CASE pattern = "range" -> RangeAt(s, i)
      [] pattern = "startOnly" -> StartOnlyAt(s, i)
      [] pattern = "dueOnly" -> DueOnlyAt(s, i)
      [] pattern = "simple" -> SimpleAt(s, i)

\* text.match(re): the leftmost index (counted from 1) the pattern matches at, or 0
MatchIndex(s, pattern) ==
    IF \E i \in 1..Len(s) : PatternAt(pattern, s, i)
    THEN CHOOSE i \in 1..Len(s) :
             PatternAt(pattern, s, i) /\ \A k \in 1..(i - 1) : ~PatternAt(pattern, s, k)
    ELSE 0

\* a faulty variant of extractDatesFromText: a single date is read as a due date only
extractDatesSingleAsDue(text) ==
    LET r == MatchIndex(text, "range")
        s == MatchIndex(text, "startOnly")
        d == MatchIndex(text, "dueOnly")
        m == MatchIndex(text, "simple")
    IN  IF r > 0
        THEN [text |-> Trim(Slice0(text, r - 1)),
              startDate |-> DateGroup(text, AtSign(text, r) + 1),
              dueDate |-> DateGroup(text, AtSign(text, r) + 13)]
        ELSE IF s > 0
        THEN [text |-> Trim(Slice0(text, s - 1)),
              startDate |-> DateGroup(text, AtSign(text, s) + 1),
              dueDate |-> Null]
        ELSE IF d > 0
        THEN [text |-> Trim(Slice0(text, d - 1)),
              startDate |-> Null,
              dueDate |-> DateGroup(text, AtSign(text, d) + 3)]
        ELSE IF m > 0
        THEN [text |-> Trim(Slice0(text, m - 1)),
              startDate |-> Null,
              dueDate |-> DateGroup(text, AtSign(text, m) + 1)]
        ELSE [text |-> text, startDate |-> Null, dueDate |-> Null]

\* a faulty variant of extractDatesFromText: the first "@" followed by a date is
\* read as a single date wherever it stands in the line
extractDatesUnanchored(text) ==
    IF \E i \in 1..Len(text) : text[i] = "@" /\ DateAt(text, i + 1)
    THEN LET i == CHOOSE k \in 1..Len(text) :
                      /\ text[k] = "@" /\ DateAt(text, k + 1)
                      /\ \A j \in 1..(k - 1) : ~(text[j] = "@" /\ DateAt(text, j + 1))
         IN  [text |-> Trim(Slice0(text, i - 1)),
              startDate |-> DateGroup(text, i + 1),
              dueDate |-> DateGroup(text, i + 1)]
    ELSE [text |-> text, startDate |-> Null, dueDate |-> Null]

\* the four patterns in the order the code tries them; match.index is counted
\* from 0, so text.slice(0, match.index) keeps the characters before index r
extractDatesFromText(text) ==
    LET r == MatchIndex(text, "range")
        s == MatchIndex(text, "startOnly")
        d == MatchIndex(text, "dueOnly")
        m == MatchIndex(text, "simple")
    IN  IF r > 0
        THEN [text |-> Trim(Slice0(text, r - 1)),
              startDate |-> DateGroup(text, AtSign(text, r) + 1),
              dueDate |-> DateGroup(text, AtSign(text, r) + 13)]
        ELSE IF s > 0
        THEN [text |-> Trim(Slice0(text, s - 1)),
              startDate |-> DateGroup(text, AtSign(text, s) + 1),
              dueDate |-> Null]
        ELSE IF d > 0
        THEN [text |-> Trim(Slice0(text, d - 1)),
              startDate |-> Null,
              dueDate |-> DateGroup(text, AtSign(text, d) + 3)]
        ELSE IF m > 0
        THEN [text |-> Trim(Slice0(text, m - 1)),
              startDate |-> DateGroup(text, AtSign(text, m) + 1),
              dueDate |-> DateGroup(text, AtSign(text, m) + 1)]
        ELSE [text |-> text, startDate |-> Null, dueDate |-> Null]

(***************************************************************************)
(* Schedule classifier                                                     *)
(***************************************************************************)
\* !x for a date field: null and "" are falsy
Falsy(x) == x = Null

\* a faulty variant of isActiveOnDate: the bounds are exclusive
isActiveOnDateExclusive(item, d) ==
    IF Falsy(item.startDate) /\ Falsy(item.dueDate) THEN FALSE
    ELSE IF ~Falsy(item.startDate) /\ Falsy(item.dueDate) THEN StrLess(item.startDate, d)
    ELSE IF Falsy(item.startDate) /\ ~Falsy(item.dueDate) THEN StrLess(d, item.dueDate)
    ELSE StrLess(item.startDate, d) /\ StrLess(d, item.dueDate)

\* utils/datePatterns.ts isActiveOnDate; >= and <= compare strings
isActiveOnDate(item, d) ==
    IF Falsy(item.startDate) /\ Falsy(item.dueDate) THEN FALSE
    ELSE IF ~Falsy(item.startDate) /\ Falsy(item.dueDate) THEN StrLeq(item.startDate, d)
    ELSE IF Falsy(item.startDate) /\ ~Falsy(item.dueDate) THEN StrLeq(d, item.dueDate)
    ELSE StrLeq(item.startDate, d) /\ StrLeq(d, item.dueDate)

\* TaskService.isTaskNoteActiveOnDate
isTaskNoteActiveOnDate(note, d) == IF note.done THEN FALSE ELSE isActiveOnDate(note, d)

\* a faulty variant of shouldShowTaskNoteOnDate: only the due date is a boundary
shouldShowOnDueOnly(note, d) ==
    IF note.done THEN FALSE
    ELSE IF Falsy(note.startDate) /\ Falsy(note.dueDate) THEN FALSE
    ELSE ~Falsy(note.dueDate) /\ d = note.dueDate

\* a faulty variant of shouldShowTaskNoteOnDate: the done flag is not looked at
shouldShowIgnoringDone(note, d) ==
    IF Falsy(note.startDate) /\ Falsy(note.dueDate) THEN FALSE
    ELSE IF ~Falsy(note.dueDate) /\ d = note.dueDate THEN TRUE
    ELSE IF ~Falsy(note.startDate) /\ d = note.startDate THEN TRUE
    ELSE FALSE

\* TaskService.shouldShowTaskNoteOnDate
shouldShowTaskNoteOnDate(note, d) ==
    IF note.done THEN FALSE
    ELSE IF Falsy(note.startDate) /\ Falsy(note.dueDate) THEN FALSE
    ELSE IF ~Falsy(note.dueDate) /\ d = note.dueDate THEN TRUE
    ELSE IF ~Falsy(note.startDate) /\ d = note.startDate THEN TRUE
    ELSE FALSE

\* the boundary test getTasksForDate applies to an inline item
itemBoundaryOn(item, d) == item.dueDate = d \/ item.startDate = d

(***************************************************************************)
(* The vault                                                               *)
(* A file is [path, basename, frontmatter, listItems, lines, readable]:    *)
(*   frontmatter [present, done, startDate, dueDate] is the parsed YAML    *)
(*     block of the metadata cache; done is the kind of value of the       *)
(*     `done` key and the two dates are raw values (see normalizeDate);    *)
(*   listItems is cache.listItems, each [line, task, parent] with line     *)
(*     counted from 0 and task the character in the checkbox (Null for a   *)
(*     list item without checkbox);                                        *)
(*   lines is content.split("\n");                                         *)
(*   readable is FALSE when vault.cachedRead(file) rejects.                *)
(***************************************************************************)
Undefined == [type |-> "undefined", chars |-> <<>>, year |-> 0, month |-> 0, day |-> 0]

StringValue(s) == [type |-> "string", chars |-> s, year |-> 0, month |-> 0, day |-> 0]

\* a value that is neither a string nor an object of three numbers, and is
\* not falsy: a number, true, an object with other keys
OtherValue == [type |-> "other", chars |-> <<>>, year |-> 0, month |-> 0, day |-> 0]

\* a {year, month, day} object of numbers
DateObject(y, m, d) == [type |-> "object", chars |-> <<>>, year |-> y, month |-> m, day |-> d]

\* TaskService.normalizeDate: a string that starts with DATE gives its first
\* ten characters; an object of three numbers gives `${year}-${month}-${day}`
\* with month and day padded (the year is written as it is)
normalizeDate(value) ==
    IF value.type = "undefined" \/ (value.type = "string" /\ value.chars = <<>>) THEN Null
    ELSE IF value.type = "string" /\ DateAt(value.chars, 1) THEN DateGroup(value.chars, 1)
    ELSE IF value.type = "object"
    THEN ToDecimal(value.year) \o <<"-">> \o PadStart2(ToDecimal(value.month))
             \o <<"-">> \o PadStart2(ToDecimal(value.day))
    ELSE Null

\* the templates folder configured in the host's templates plugin
TemplatesFolder == <<"x">>

\* TaskService.isTemplateFile
isTemplateFile(file) ==
    IF TemplatesFolder = <<>> THEN FALSE
    ELSE StartsWith(file.path, TemplatesFolder \o <<"/">>) \/ file.path = TemplatesFolder

\* the folder configured in the host's daily-notes plugin (the default)
DailyNotesFolder == <<>>

\* dateUtils.parseDateString for the default format YYYY-MM-DD: the date when
\* the text is exactly a date in that format, else null
parseDateString(text) == IF DateAt(text, 1) /\ Len(text) = 10 THEN text ELSE Null

\* DailyNoteService.parseDailyNoteDate
parseDailyNoteDate(file) ==
    LET pathWithoutExt ==
            IF EndsWith(file.path, <<".", "m", "d">>)
            THEN SubSeq(file.path, 1, Len(file.path) - 3) ELSE file.path
    IN  IF DailyNotesFolder # <<>>
        THEN IF ~StartsWith(pathWithoutExt, DailyNotesFolder \o <<"/">>) THEN Null
             ELSE parseDateString(SubSeq(pathWithoutExt, Len(DailyNotesFolder) + 2,
                                         Len(pathWithoutExt)))
        ELSE parseDateString(pathWithoutExt)

\* DailyNoteService.isDailyNote
isDailyNote(file) == parseDailyNoteDate(file) # Null

RECURSIVE SortFiles(_)
\* vault.getMarkdownFiles(): the host enumerates the files in a fixed order,
\* here ascending by path
SortFiles(F) ==
    IF F = {} THEN <<>>
    ELSE LET first == CHOOSE f \in F : \A g \in F : StrLeq(f.path, g.path)
         IN  <<first>> \o SortFiles(F \ {first})

getMarkdownFiles(v) == SortFiles(v)

RECURSIVE Concat(_)
\* the concatenation of a sequence of sequences
Concat(ss) == IF ss = <<>> THEN <<>> ELSE Head(ss) \o Concat(Tail(ss))

(***************************************************************************)
(* Aggregation engine (services/TaskService.ts)                            *)
(* A TaskNote is [file, name, startDate, dueDate, done], a TaskItem is     *)
(* [line, startDate, dueDate, file] and a DailyNote [file, date,           *)
(* taskItems]; file is the path of the document. The display text and the  *)
(* breadcrumbs of a TaskItem play no part in the categorization and are    *)
(* not carried here.                                                       *)
(***************************************************************************)
\* TaskService.getAllTaskNotes
getAllTaskNotes(v) ==
    LET files == getMarkdownFiles(v)
        IsTaskNote(file) ==
            /\ ~isTemplateFile(file)
            /\ ~isDailyNote(file)
            /\ file.frontmatter.present
            /\ file.frontmatter.done # "undefined"
        kept == SelectSeq(files, IsTaskNote)
    IN  [i \in 1..Len(kept) |->
            [file |-> kept[i].path,
             name |-> kept[i].basename,
             startDate |-> normalizeDate(kept[i].frontmatter.startDate),
             dueDate |-> normalizeDate(kept[i].frontmatter.dueDate),
             done |-> kept[i].frontmatter.done = "true"]]

\* lineText.replace(/^[\s]*-\s*\[.\]\s*/, "").trim()
StripCheckbox(lineText) ==
    LET i == SkipSpace(lineText, 1)
        j == SkipSpace(lineText, i + 1)
        matches == /\ i <= Len(lineText) /\ lineText[i] = "-"
                   /\ j + 2 <= Len(lineText)
                   /\ lineText[j] = "[" /\ lineText[j + 2] = "]"
    IN  Trim(IF matches
             THEN SubSeq(lineText, SkipSpace(lineText, j + 3), Len(lineText))
             ELSE lineText)

\* lines[lineNum] || ""
LineAt(lines, lineNum) ==
    IF lineNum + 1 \in 1..Len(lines) THEN lines[lineNum + 1] ELSE <<>>

IsIncompleteTask(listItem) == listItem.task = " "

\* the item built from one unchecked list item, by extractTaskItems and by
\* getAllTaskItems alike
TaskItemOf(file, listItem) ==
    LET dates == extractDatesFromText(StripCheckbox(LineAt(file.lines, listItem.line)))
    IN  [line |-> listItem.line,
         startDate |-> dates.startDate,
         dueDate |-> dates.dueDate,
         file |-> file.path]

\* TaskService.extractTaskItems: every unchecked list item of the file
extractTaskItems(file) ==
    LET incompleteTasks == SelectSeq(file.listItems, IsIncompleteTask)
    IN  [i \in 1..Len(incompleteTasks) |-> TaskItemOf(file, incompleteTasks[i])]

\* TaskService.getAllDailyNotes
getAllDailyNotes(v) ==
    LET files == getMarkdownFiles(v)
        IsDaily(file) == ~isTemplateFile(file) /\ parseDailyNoteDate(file) # Null
        kept == SelectSeq(files, IsDaily)
    IN  [i \in 1..Len(kept) |->
            [file |-> kept[i].path,
             date |-> parseDailyNoteDate(kept[i]),
             taskItems |-> extractTaskItems(kept[i])]]

\* a faulty variant of getAllTaskItems: the annotation of an item is read
\* wherever it stands in the line
getAllTaskItemsUnanchored(v) ==
    LET files == getMarkdownFiles(v)
        Eligible(file) == ~isTemplateFile(file) /\ ~isDailyNote(file)
        kept == SelectSeq(files, Eligible)
        HasDate(item) == ~(Falsy(item.startDate) /\ Falsy(item.dueDate))
        ItemOf(file, listItem) ==
            LET dates == extractDatesUnanchored(
                             StripCheckbox(LineAt(file.lines, listItem.line)))
            IN  [line |-> listItem.line,
                 startDate |-> dates.startDate,
                 dueDate |-> dates.dueDate,
                 file |-> file.path]
        ItemsOf(file) ==
            LET incompleteTasks == SelectSeq(file.listItems, IsIncompleteTask)
            IN  [i \in 1..Len(incompleteTasks) |-> ItemOf(file, incompleteTasks[i])]
    IN  Concat([i \in 1..Len(kept) |-> SelectSeq(ItemsOf(kept[i]), HasDate)])

\* TaskService.getAllTaskItems: the unchecked list items of the documents
\* that are not daily notes, those with at least one date only
getAllTaskItems(v) ==
    LET files == getMarkdownFiles(v)
        Eligible(file) == ~isTemplateFile(file) /\ ~isDailyNote(file)
        kept == SelectSeq(files, Eligible)
        HasDate(item) == ~(Falsy(item.startDate) /\ Falsy(item.dueDate))
    IN  Concat([i \in 1..Len(kept) |-> SelectSeq(extractTaskItems(kept[i]), HasDate)])

\* allDailyNotes.find((n) => n.date === dateStr)?.taskItems, [] when not found
DailyItemsOn(d, allDailyNotes) ==
    LET found == SelectSeq(allDailyNotes, LAMBDA n : n.date = d)
    IN  IF found = <<>> THEN <<>> ELSE found[1].taskItems

\* a faulty variant of getTasksForDate: notes and items are taken by active range
getTasksForDateActive(d, allDailyNotes, allTaskNotes, allTaskItems) ==
    [taskItems |-> DailyItemsOn(d, allDailyNotes)
                       \o SelectSeq(allTaskItems, LAMBDA item : isActiveOnDate(item, d)),
     taskNotes |-> SelectSeq(allTaskNotes, LAMBDA note : isTaskNoteActiveOnDate(note, d))]

\* TaskService.getTasksForDate
getTasksForDate(d, allDailyNotes, allTaskNotes, allTaskItems) ==
    [taskItems |-> DailyItemsOn(d, allDailyNotes)
                       \o SelectSeq(allTaskItems, LAMBDA item : itemBoundaryOn(item, d)),
     taskNotes |-> SelectSeq(allTaskNotes, LAMBDA note : shouldShowTaskNoteOnDate(note, d))]

\* the number of days the Upcoming category reaches ahead
UpcomingDays == 14

\* the Map built from the sorted dates: one entry per date, in that order,
\* dates whose data is empty left out
BuildBuckets(dates, allDailyNotes, allTaskNotes, allTaskItems) ==
    LET sorted == SortStrings(dates)
        entries == [i \in 1..Len(sorted) |->
                       LET data == getTasksForDate(sorted[i], allDailyNotes,
                                                   allTaskNotes, allTaskItems)
                       IN  [date |-> sorted[i],
                            taskItems |-> data.taskItems,
                            taskNotes |-> data.taskNotes]]
    IN  SelectSeq(entries, LAMBDA e : Len(e.taskItems) > 0 \/ Len(e.taskNotes) > 0)

\* a faulty variant of OverdueDates: start dates before today are collected too
OverdueDatesWithStart(todayStr, allDailyNotes, allTaskNotes, allTaskItems) ==
    {n.date : n \in {n \in Range(allDailyNotes) :
                        StrLess(n.date, todayStr) /\ Len(n.taskItems) > 0}}
    \cup {n.dueDate : n \in {n \in Range(allTaskNotes) \cup Range(allTaskItems) :
                        ~Falsy(n.dueDate) /\ StrLess(n.dueDate, todayStr)}}
    \cup {n.startDate : n \in {n \in Range(allTaskNotes) \cup Range(allTaskItems) :
                        ~Falsy(n.startDate) /\ StrLess(n.startDate, todayStr)}}

\* overdueDates of getTasksByCategory
OverdueDates(todayStr, allDailyNotes, allTaskNotes, allTaskItems) ==
    {n.date : n \in {n \in Range(allDailyNotes) :
                        StrLess(n.date, todayStr) /\ Len(n.taskItems) > 0}}
    \cup {n.dueDate : n \in {n \in Range(allTaskNotes) :
                        ~n.done /\ ~Falsy(n.dueDate) /\ StrLess(n.dueDate, todayStr)}}
    \cup {i.dueDate : i \in {i \in Range(allTaskItems) :
                        ~Falsy(i.dueDate) /\ StrLess(i.dueDate, todayStr)}}

\* the test `date > todayStr && date <= weekLater`
InUpcomingRange(date, todayStr, weekLater) ==
    StrLess(todayStr, date) /\ StrLeq(date, weekLater)

\* upcomingDates of getTasksByCategory
UpcomingDates(todayStr, weekLater, allDailyNotes, allTaskNotes, allTaskItems) ==
    {n.date : n \in {n \in Range(allDailyNotes) :
                        InUpcomingRange(n.date, todayStr, weekLater) /\ Len(n.taskItems) > 0}}
    \cup {n.dueDate : n \in {n \in Range(allTaskNotes) :
                        ~n.done /\ ~Falsy(n.dueDate)
                        /\ InUpcomingRange(n.dueDate, todayStr, weekLater)}}
    \cup {n.startDate : n \in {n \in Range(allTaskNotes) :
                        ~n.done /\ ~Falsy(n.startDate)
                        /\ InUpcomingRange(n.startDate, todayStr, weekLater)}}
    \cup {i.dueDate : i \in {i \in Range(allTaskItems) :
                        ~Falsy(i.dueDate) /\ InUpcomingRange(i.dueDate, todayStr, weekLater)}}
    \cup {i.startDate : i \in {i \in Range(allTaskItems) :
                        ~Falsy(i.startDate) /\ InUpcomingRange(i.startDate, todayStr, weekLater)}}

\* a faulty variant of TodayData: Today is built with the boundary test
TodayDataBoundary(todayStr, allDailyNotes, allTaskNotes, allTaskItems) ==
    getTasksForDate(todayStr, allDailyNotes, allTaskNotes, allTaskItems)

\* todayData of getTasksByCategory
TodayData(todayStr, allDailyNotes, allTaskNotes, allTaskItems) ==
    [taskItems |-> DailyItemsOn(todayStr, allDailyNotes)
                       \o SelectSeq(allTaskItems, LAMBDA item : isActiveOnDate(item, todayStr)),
     taskNotes |-> SelectSeq(allTaskNotes, LAMBDA note : isTaskNoteActiveOnDate(note, todayStr))]

\* a faulty variant of NoSchedule: completed notes are listed too
NoScheduleWithDone(allTaskNotes) ==
    SelectSeq(allTaskNotes, LAMBDA note : Falsy(note.startDate) /\ Falsy(note.dueDate))

\* noSchedule of getTasksByCategory
NoSchedule(allTaskNotes) ==
    SelectSeq(allTaskNotes,
              LAMBDA note : ~note.done /\ Falsy(note.startDate) /\ Falsy(note.dueDate))

\* the content of the file is read by extractTaskItems and by getAllTaskItems
\* (`await this.app.vault.cachedRead(file)`): of every file outside the
\* templates folder that has an unchecked checkbox
ContentRead(file) ==
    ~isTemplateFile(file) /\ SelectSeq(file.listItems, IsIncompleteTask) # <<>>

\* the outcome of a pass whose promise rejects: no categories are returned
Rejected == [todayStr |-> Null, rejected |-> TRUE]

\* TaskService.getTasksByCategory on the vault v. The wall clock is read
\* twice, by getTodayStr() and by `new Date()` on the next line: first and
\* second are the calendar days of the two readings. The five constants of
\* the method are computed once each, then the four categories from them.
\* No read is guarded: a read that rejects rejects the pass.
getTasksByCategory(v, first, second) ==
    IF \E file \in v : ContentRead(file) /\ ~file.readable THEN Rejected
    ELSE CHOOSE categories \in
        {[todayStr |-> todayStr,
          weekLater |-> weekLater,
          allTaskNotes |-> allTaskNotes,
          allDailyNotes |-> allDailyNotes,
          allTaskItems |-> allTaskItems,
          overdue |-> BuildBuckets(
              OverdueDates(todayStr, allDailyNotes, allTaskNotes, allTaskItems),
              allDailyNotes, allTaskNotes, allTaskItems),
          today |-> TodayData(todayStr, allDailyNotes, allTaskNotes, allTaskItems),
          upcoming |-> BuildBuckets(
              UpcomingDates(todayStr, weekLater, allDailyNotes, allTaskNotes, allTaskItems),
              allDailyNotes, allTaskNotes, allTaskItems),
          noSchedule |-> NoSchedule(allTaskNotes)] :
            todayStr \in {formatDate(first)},
            weekLater \in {formatDate(addDays(second, UpcomingDays))},
            allTaskNotes \in {getAllTaskNotes(v)},
            allDailyNotes \in {getAllDailyNotes(v)},
            allTaskItems \in {getAllTaskItems(v)}} : TRUE

(***************************************************************************)
(* The documents the vault is populated from                               *)
(***************************************************************************)
MaxFiles == 2

MaxTicks == 1

\* the calendar day the wall clock shows at clock = 0
StartDate == [year |-> 2025, month |-> 1, day |-> 20]

\* the calendar day the wall clock shows after c days
Today(c) == addDays(StartDate, c)

D0110 == <<"2", "0", "2", "5", "-", "0", "1", "-", "1", "0">>

D0120 == <<"2", "0", "2", "5", "-", "0", "1", "-", "2", "0">>

D0203 == <<"2", "0", "2", "5", "-", "0", "2", "-", "0", "3">>

D0204 == <<"2", "0", "2", "5", "-", "0", "2", "-", "0", "4">>

DotMd == <<".", "m", "d">>

NoFrontmatter == [present |-> FALSE, done |-> "undefined",
                  startDate |-> Undefined, dueDate |-> Undefined]

\* the raw startDate and dueDate values of the task notes' frontmatter
RawStartDates == <<Undefined, StringValue(D0110), StringValue(D0120), StringValue(D0204)>>

RawDueDates == <<Undefined, StringValue(D0110), DateObject(2025, 2, 3),
                 StringValue(D0204), DateObject(10000, 1, 1)>>

DoneValues == <<"false", "true">>

\* a document with a frontmatter block and no list
NoteFile(dir, k, done, start, due) ==
    [path |-> dir \o <<"a">> \o ToDecimal(k) \o DotMd,
     basename |-> <<"a">> \o ToDecimal(k),
     frontmatter |-> [present |-> TRUE, done |-> done, startDate |-> start, dueDate |-> due],
     listItems |-> <<>>,
     lines |-> <<>>,
     readable |-> TRUE]

TaskNoteFiles ==
    {NoteFile(<<>>, 100 * s + 10 * d + n, DoneValues[n], RawStartDates[s], RawDueDates[d]) :
        s \in 1..Len(RawStartDates), d \in 1..Len(RawDueDates), n \in 1..Len(DoneValues)}

\* a dated note without the `done` key, and a task note in the templates folder
OtherNoteFiles ==
    {NoteFile(<<>>, 0, "undefined", Undefined, StringValue(D0110)),
     NoteFile(TemplatesFolder \o <<"/">>, 0, "false", Undefined, StringValue(D0110))}

\* raw values that are not dates: a date followed by one more character, a
\* date with a one-digit month, a value of another type
RawMalformed ==
    <<StringValue(D0110 \o <<"x">>),
      StringValue(<<"2", "0", "2", "5", "-", "1", "-", "1", "0">>),
      OtherValue>>

\* task notes whose frontmatter holds such values
MalformedNoteFiles ==
    {NoteFile(<<>>, 901, "false", Undefined, RawMalformed[1]),
     NoteFile(<<>>, 902, "false", RawMalformed[2], Undefined),
     NoteFile(<<>>, 903, "false", RawMalformed[3], RawMalformed[2])}

\* "- [c] a" followed by the annotation
CheckboxLine(c, annotation) == <<"-", " ", "[", c, "]", " ", "a">> \o annotation

Tagged(body) == <<" ", "@">> \o body

Dots == <<".", ".">>

\* a document whose line 1 is a checkbox
ListFile(path, basename, c, annotation) ==
    [path |-> path,
     basename |-> basename,
     frontmatter |-> NoFrontmatter,
     listItems |-> <<[line |-> 1, task |-> c, parent |-> -1]>>,
     lines |-> <<<<"a">>, CheckboxLine(c, annotation)>>,
     readable |-> TRUE]

\* a document with a checked and then an unchecked checkbox
TwoItemFile(path, basename, annotation) ==
    [path |-> path,
     basename |-> basename,
     frontmatter |-> NoFrontmatter,
     listItems |-> <<[line |-> 0, task |-> "x", parent |-> -1],
                     [line |-> 1, task |-> " ", parent |-> -1]>>,
     lines |-> <<CheckboxLine("x", <<>>), CheckboxLine(" ", annotation)>>,
     readable |-> TRUE]

ItemAnnotations ==
    <<<<>>, Tagged(D0110), Tagged(D0110 \o Dots \o D0204), Tagged(Dots \o D0203),
      Tagged(D0110 \o Dots), Tagged(D0204), Tagged(D0110) \o <<" ", "b">>>>

\* documents that are not daily notes, with one checkbox
InlineFiles ==
    {ListFile(<<"d">> \o ToDecimal(k) \o DotMd, <<"d">> \o ToDecimal(k), " ",
              ItemAnnotations[k]) : k \in 1..Len(ItemAnnotations)}
    \cup {ListFile(<<"d", "0">> \o DotMd, <<"d", "0">>, "x", Tagged(D0110))}

\* documents whose content cannot be read, one with an unchecked and one with
\* a checked checkbox
UnreadableFiles ==
    {[ListFile(<<"d", "8">> \o DotMd, <<"d", "8">>, " ", Tagged(D0110))
         EXCEPT !.readable = FALSE],
     [ListFile(<<"d", "9">> \o DotMd, <<"d", "9">>, "x", Tagged(D0110))
         EXCEPT !.readable = FALSE]}

DailyDates == {D0110, D0120, D0203}

DailyNoteFiles ==
    {ListFile(d \o DotMd, d, " ", <<>>) : d \in DailyDates}
    \cup {ListFile(d \o DotMd, d, "x", <<>>) : d \in DailyDates}
    \cup {TwoItemFile(d \o DotMd, d, Tagged(D0204)) : d \in DailyDates}

Catalog ==
    TaskNoteFiles \cup OtherNoteFiles \cup MalformedNoteFiles \cup InlineFiles
        \cup UnreadableFiles \cup DailyNoteFiles

(***************************************************************************)
(* The vault, the clock and the categorization pass                        *)
(***************************************************************************)
NoResult == [todayStr |-> Null]

\* the inputs of the classifier and of the parser while they are not run
NoWindow == [startDate |-> Null, dueDate |-> Null, done |-> FALSE]

NoVerdict == [run |-> FALSE]

NoInput == [before |-> <<>>, form |-> "none", first |-> Null, second |-> Null, after |-> <<>>]

NotParsed == [run |-> FALSE]

Init ==
    /\ vault = {}
    /\ clock = 0
    /\ result = NoResult
    /\ window = NoWindow
    /\ dateStr = Null
    /\ verdict = NoVerdict
    /\ input = NoInput
    /\ parsed = NotParsed

\* a document is created; the view's task list is rebuilt on every change of
\* the vault, so the result of the earlier pass is gone
Create(f) ==
    /\ Cardinality(vault) < MaxFiles
    /\ \A g \in vault : g.path # f.path
    /\ vault' = vault \cup {f}
    /\ result' = NoResult
    /\ UNCHANGED <<clock, window, dateStr, verdict, input, parsed>>

\* a document is deleted
Delete(f) ==
    /\ f \in vault
    /\ vault' = vault \ {f}
    /\ result' = NoResult
    /\ UNCHANGED <<clock, window, dateStr, verdict, input, parsed>>

\* midnight passes
Tick ==
    /\ clock < MaxTicks
    /\ clock' = clock + 1
    /\ UNCHANGED <<vault, result, window, dateStr, verdict, input, parsed>>

\* one pass of getTasksByCategory over the vault; midnight may pass between
\* its two readings of the clock
Categorize(midnight) ==
    /\ midnight => clock < MaxTicks
    /\ clock' = IF midnight THEN clock + 1 ELSE clock
    /\ result' = getTasksByCategory(vault, Today(clock), Today(clock'))
    /\ UNCHANGED <<vault, window, dateStr, verdict, input, parsed>>

Next ==
    \/ \E f \in Catalog : Create(f)
    \/ \E f \in vault : Delete(f)
    \/ Tick
    \/ \E midnight \in BOOLEAN : Categorize(midnight)

Spec == Init /\ [][Next]_vars

(***************************************************************************)
(* Properties of the categorized result                                    *)
(***************************************************************************)
\* a pass has returned its categories
Ran == result \notin {NoResult, Rejected}

\* the dates that key a Map, and the Map's entry for a date
Keys(buckets) == {buckets[i].date : i \in 1..Len(buckets)}

Buckets == Range(result.overdue) \cup Range(result.upcoming)

\* an inline item is identified by its document and line, a note by its document
ItemIds(items) == {<<items[i].file, items[i].line>> : i \in 1..Len(items)}

NoteIds(notes) == {notes[i].file : i \in 1..Len(notes)}

IncompleteNotes == {n \in Range(result.allTaskNotes) : ~n.done}

InlineItems == Range(result.allTaskItems)

\* the unchecked checkboxes of a document, by document and line
UncheckedIn(f) ==
    {<<f.path, f.listItems[i].line>> : i \in {i \in 1..Len(f.listItems) : f.listItems[i].task = " "}}

\* the daily notes of the vault that hold an unchecked checkbox
DailyWithIncomplete ==
    {f \in vault : ~isTemplateFile(f) /\ isDailyNote(f) /\ UncheckedIn(f) # {}}

\* the start and due dates an entity has
Boundaries(e) == {e.startDate, e.dueDate} \ {Null}

\* every category of the result, as sets of identities
AllListedItems ==
    UNION {ItemIds(b.taskItems) : b \in Buckets} \cup ItemIds(result.today.taskItems)

AllBucketNotes ==
    UNION {NoteIds(b.taskNotes) : b \in Buckets} \cup NoteIds(result.today.taskNotes)

Horizon == addDays(parseDate(result.todayStr), UpcomingDays)

\* C2 as stated: d keys an Upcoming bucket iff referenceDate < d <=
\* referenceDate + 14 days and d is the date of a daily note with an
\* incomplete item or a boundary date of an incomplete note or item.
C2_UpcomingKeysWithinFourteenDays ==
    Ran =>
        Keys(result.upcoming) =
            {d \in {parseDailyNoteDate(f) : f \in DailyWithIncomplete}
                   \cup UNION {Boundaries(e) : e \in IncompleteNotes \cup InlineItems} :
                /\ Earlier(parseDate(result.todayStr), parseDate(d))
                /\ NotLater(parseDate(d), Horizon)}

\* the inline items of the daily note dated d that are unchecked
DailyIncompleteOn(d) ==
    UNION {UncheckedIn(f) : f \in {f \in vault : ~isTemplateFile(f) /\ parseDailyNoteDate(f) = d}}

\* C3: the bucket of a date d holds exactly the unchecked items of the daily
\* note dated d, the inline items with startDate = d or dueDate = d, and the
\* incomplete notes with startDate = d or dueDate = d.
C3_BucketHoldsBoundaryHits ==
    Ran =>
        \A b \in Buckets :
            /\ ItemIds(b.taskItems) =
                   DailyIncompleteOn(b.date)
                   \cup {<<i.file, i.line>> : i \in {i \in InlineItems : b.date \in Boundaries(i)}}
            /\ NoteIds(b.taskNotes) =
                   {n.file : n \in {n \in IncompleteNotes : b.date \in Boundaries(n)}}

\* C3's case: a bucket whose date lies strictly inside the window of an
\* incomplete entity, which the bucket does not hold
C3_Witness ==
    /\ Ran
    /\ \E b \in Buckets : \E n \in IncompleteNotes :
           /\ n.startDate # Null /\ n.dueDate # Null
           /\ StrLess(n.startDate, b.date) /\ StrLess(b.date, n.dueDate)
           /\ n.file \notin NoteIds(b.taskNotes)
           /\ b.taskNotes # <<>>

\* C4: Today holds exactly the incomplete notes and the inline items that
\* isActiveOnDate accepts for the reference date, and the unchecked items of
\* the daily note of that date.
C4_TodayHoldsActiveRange ==
    Ran =>
        /\ NoteIds(result.today.taskNotes) =
               {n.file : n \in {n \in IncompleteNotes : isActiveOnDate(n, result.todayStr)}}
        /\ ItemIds(result.today.taskItems) =
               DailyIncompleteOn(result.todayStr)
               \cup {<<i.file, i.line>> :
                        i \in {i \in InlineItems : isActiveOnDate(i, result.todayStr)}}

\* C4's case: Today lists a note and an item whose windows strictly contain
\* the reference date
C4_Witness ==
    /\ Ran
    /\ \E n \in IncompleteNotes :
           /\ n.startDate # Null /\ n.dueDate # Null
           /\ StrLess(n.startDate, result.todayStr) /\ StrLess(result.todayStr, n.dueDate)
           /\ n.file \in NoteIds(result.today.taskNotes)
    /\ \E i \in InlineItems :
           /\ i.startDate # Null /\ i.dueDate # Null
           /\ StrLess(i.startDate, result.todayStr) /\ StrLess(result.todayStr, i.dueDate)
           /\ <<i.file, i.line>> \in ItemIds(result.today.taskItems)

\* the checkboxes of the vault that are not unchecked, by document and line
CheckedBoxes ==
    UNION {{<<f.path, f.listItems[i].line>> :
               i \in {i \in 1..Len(f.listItems) : f.listItems[i].task \notin {Null, " "}}} :
           f \in vault}

\* C5: a note with done = true and a checkbox that is not unchecked are in no
\* category, and every bucket holds an entity that is not completed.
C5_CompletedNeverClassified ==
    Ran =>
        /\ \A n \in Range(result.allTaskNotes) :
               n.done => n.file \notin AllBucketNotes \cup NoteIds(result.noSchedule)
        /\ CheckedBoxes \cap AllListedItems = {}
        /\ \A b \in Buckets : b.taskItems # <<>> \/ b.taskNotes # <<>>

\* C5's case: a completed note is due before the reference date, a checked
\* checkbox carries a date, and the result has an Overdue bucket
C5_Witness ==
    /\ Ran
    /\ \E n \in Range(result.allTaskNotes) :
           n.done /\ n.dueDate # Null /\ StrLess(n.dueDate, result.todayStr)
           /\ n.dueDate \in Keys(result.overdue)
    /\ CheckedBoxes # {}

\* C6: noSchedule is exactly the incomplete notes without startDate and
\* without dueDate, and none of them is in a bucket or in Today.
C6_NoScheduleIsUndatedNotes ==
    Ran =>
        /\ NoteIds(result.noSchedule) =
               {n.file : n \in {n \in IncompleteNotes : n.startDate = Null /\ n.dueDate = Null}}
        /\ Len(result.noSchedule) = Cardinality(NoteIds(result.noSchedule))
        /\ NoteIds(result.noSchedule) \cap AllBucketNotes = {}

\* C6's case: No-Schedule lists a note while a completed undated note and a
\* dated note are left out
C6_Witness ==
    /\ Ran
    /\ result.noSchedule # <<>>
    /\ \E n \in Range(result.allTaskNotes) :
           n.file \notin NoteIds(result.noSchedule)
           /\ ((n.done /\ n.startDate = Null /\ n.dueDate = Null) \/ (~n.done /\ n.dueDate # Null))

\* the dates of a Map in the order it enumerates them
KeySeq(buckets) == [i \in 1..Len(buckets) |-> buckets[i].date]

\* a sequence of date tokens is strictly ascending as calendar days
Chronological(dates) ==
    \A i \in 1..(Len(dates) - 1) : Earlier(parseDate(dates[i]), parseDate(dates[i + 1]))

\* C7 as stated: Overdue and Upcoming enumerate their dates in strictly
\* ascending chronological order.
C7_BucketsChronological ==
    Ran => Chronological(KeySeq(result.overdue)) /\ Chronological(KeySeq(result.upcoming))

\* C2 holds of every pass whose two readings of the clock fall on one day
C2_HoldsWithinOneDay ==
    (Ran /\ result.weekLater = formatDate(Horizon)) => C2_UpcomingKeysWithinFourteenDays

(***************************************************************************)
(* The schedule classifier on its own: a window and a date are drawn, and  *)
(* the tests of the classifier are applied to them.                        *)
(***************************************************************************)
D1231 == <<"2", "0", "2", "4", "-", "1", "2", "-", "3", "1">>

ClassifierDates == {D1231, D0110, D0120, D0203}

Windows == [startDate : ClassifierDates \cup {Null},
            dueDate : ClassifierDates \cup {Null},
            done : BOOLEAN]

ClassifierInit ==
    /\ vault = {}
    /\ clock = 0
    /\ result = NoResult
    /\ window \in Windows
    /\ dateStr \in ClassifierDates
    /\ verdict = NoVerdict
    /\ input = NoInput
    /\ parsed = NotParsed

\* the tests are applied: isActiveOnDate, the two tests on a task note, and
\* the boundary test on an inline item
Classify ==
    /\ ~verdict.run
    /\ verdict' = [run |-> TRUE,
                   active |-> isActiveOnDate(window, dateStr),
                   activeNote |-> isTaskNoteActiveOnDate(window, dateStr),
                   showNote |-> shouldShowTaskNoteOnDate(window, dateStr),
                   showItem |-> itemBoundaryOn(window, dateStr)]
    /\ UNCHANGED <<vault, clock, result, window, dateStr, input, parsed>>

\* another window and date are drawn
Redraw(w, d) ==
    /\ verdict.run
    /\ window' = w
    /\ dateStr' = d
    /\ verdict' = NoVerdict
    /\ UNCHANGED <<vault, clock, result, input, parsed>>

ClassifierNext ==
    \/ Classify
    \/ \E w \in Windows, d \in ClassifierDates : Redraw(w, d)

ClassifierSpec == ClassifierInit /\ [][ClassifierNext]_vars

\* the calendar day of a token that is present
Day(token) == parseDate(token)

\* C8: isActiveOn is false without dates, d >= startDate with a start only,
\* d <= dueDate with a due only, startDate <= d <= dueDate with both, the
\* comparisons being those of calendar days.
C8_ActiveOnInclusiveRange ==
    verdict.run =>
        verdict.active =
            IF window.startDate = Null /\ window.dueDate = Null THEN FALSE
            ELSE IF window.dueDate = Null THEN NotLater(Day(window.startDate), Day(dateStr))
            ELSE IF window.startDate = Null THEN NotLater(Day(dateStr), Day(window.dueDate))
            ELSE /\ NotLater(Day(window.startDate), Day(dateStr))
                 /\ NotLater(Day(dateStr), Day(window.dueDate))

\* C8's case: a single-day window tested on its day is active
C8_Witness ==
    /\ verdict.run
    /\ window.startDate # Null
    /\ window.startDate = window.dueDate
    /\ dateStr = window.startDate
    /\ verdict.active

\* C9: the boundary test is true exactly when d is the due date or the start
\* date, for an inline item and for a task note that is not done alike (a
\* note that is done is never shown).
C9_ShownOnBoundariesOnly ==
    verdict.run =>
        /\ verdict.showItem = (dateStr \in {window.startDate, window.dueDate})
        /\ ~window.done => verdict.showNote = verdict.showItem
        /\ window.done => ~verdict.showNote

\* C9's case: a date strictly inside the window is not a hit, for a note that
\* is not done
C9_Witness ==
    /\ verdict.run
    /\ ~window.done
    /\ window.startDate # Null /\ window.dueDate # Null
    /\ Earlier(Day(window.startDate), Day(dateStr))
    /\ Earlier(Day(dateStr), Day(window.dueDate))
    /\ ~verdict.showNote /\ ~verdict.showItem

(***************************************************************************)
(* The annotation parser on its own: a line is put together from the text  *)
(* before the annotation, an annotation in one of the four forms (or none) *)
(* and the text after it, and extractDatesFromText is applied to the line. *)
(***************************************************************************)
ParserDates == {D0110, D0204}

TextsBefore ==
    {<<>>,
     <<"a">>,
     <<"a", " ">>,
     <<"a", " ", "\t">>,
     <<" ", "a", " ", "b">>,
     <<"a", " ", "@">> \o D0120 \o <<" ">>,
     <<"a", " ", "@">> \o D0120 \o <<".", ".">>,
     <<"a", " ", "@">> \o D0120,
     <<"a", "@">>}

TextsAfter == {<<>>, <<" ">>, <<"\t", " ">>, <<" ", "a">>}

ParserInputs ==
    [before : TextsBefore, form : {"range"}, first : ParserDates, second : ParserDates,
     after : TextsAfter]
    \cup [before : TextsBefore, form : {"start", "due", "single"}, first : ParserDates,
          second : {Null}, after : TextsAfter]
    \cup [before : TextsBefore, form : {"none"}, first : {Null}, second : {Null},
          after : TextsAfter]

\* the annotation of an input, as it is written
Annotation(in) ==
    CASE in.form = "range" -> <<"@">> \o in.first \o <<".", ".">> \o in.second
      [] in.form = "start" -> <<"@">> \o in.first \o <<".", ".">>
      [] in.form = "due" -> <<"@", ".", ".">> \o in.first
      [] in.form = "single" -> <<"@">> \o in.first
      [] in.form = "none" -> <<>>

\* the line of text of an input
Line(in) == in.before \o Annotation(in) \o in.after

ParserInit ==
    /\ vault = {}
    /\ clock = 0
    /\ result = NoResult
    /\ window = NoWindow
    /\ dateStr = Null
    /\ verdict = NoVerdict
    /\ input \in ParserInputs
    /\ parsed = NotParsed

\* extractDatesFromText is applied to the line
Parse ==
    /\ ~parsed.run
    /\ parsed' = [run |-> TRUE, out |-> extractDatesFromText(Line(input))]
    /\ UNCHANGED <<vault, clock, result, window, dateStr, verdict, input>>

\* another line is drawn
Retype(in) ==
    /\ parsed.run
    /\ input' = in
    /\ parsed' = NotParsed
    /\ UNCHANGED <<vault, clock, result, window, dateStr, verdict>>

ParserNext ==
    \/ Parse
    \/ \E in \in ParserInputs : Retype(in)

ParserSpec == ParserInit /\ [][ParserNext]_vars

\* the line ends in its annotation, trailing whitespace allowed
EndsInAnnotation(in) == in.form # "none" /\ \A k \in 1..Len(in.after) : IsSpace(in.after[k])

\* C10: for a line that ends in one of the four forms the dates are those of
\* the form (a single date is both start and due) and the text is the text
\* before the annotation, trimmed.
C10_FourFormsExtracted ==
    (parsed.run /\ EndsInAnnotation(input)) =>
        /\ parsed.out.text = Trim(input.before)
        /\ parsed.out.startDate =
               (IF input.form = "due" THEN Null ELSE input.first)
        /\ parsed.out.dueDate =
               (CASE input.form = "range" -> input.second
                  [] input.form = "start" -> Null
                  [] input.form = "due" -> input.first
                  [] input.form = "single" -> input.first)

\* C10's case: a range with two different dates after text that itself holds
\* an annotation, followed by whitespace, is read as that range
C10_Witness ==
    /\ parsed.run
    /\ input.form = "range"
    /\ input.first # input.second
    /\ input.after # <<>>
    /\ EndsInAnnotation(input)
    /\ Len(input.before) > 10
    /\ parsed.out.startDate = input.first
    /\ parsed.out.dueDate = input.second


\* s is a date token: four digits, "-", two digits, "-", two digits
IsDateToken(s) == Len(s) = 10 /\ DateAt(s, 1)

\* the line without its trailing whitespace
RightTrimmed(s) == SubSeq(s, 1, SkipSpaceBack(s, Len(s)))

\* the line ends, trailing whitespace aside, in "@" and one of the four forms
EndsInForm(line) ==
    LET t == RightTrimmed(line)
        n == Len(t)
    IN  \/ n >= 11 /\ t[n - 10] = "@" /\ IsDateToken(SubSeq(t, n - 9, n))
        \/ n >= 13 /\ t[n - 12] = "@" /\ SubSeq(t, n - 11, n - 10) = Dots
                    /\ IsDateToken(SubSeq(t, n - 9, n))
        \/ n >= 13 /\ t[n - 12] = "@" /\ IsDateToken(SubSeq(t, n - 11, n - 2))
                    /\ SubSeq(t, n - 1, n) = Dots
        \/ n >= 23 /\ t[n - 22] = "@" /\ IsDateToken(SubSeq(t, n - 21, n - 12))
                    /\ SubSeq(t, n - 11, n - 10) = Dots
                    /\ IsDateToken(SubSeq(t, n - 9, n))

\* a well-formed annotation stands somewhere in s
HoldsAnnotation(s) == \E i \in 1..Len(s) : s[i] = "@" /\ DateAt(s, i + 1)

\* C11: a line that does not end in one of the four forms comes back unchanged
\* with both dates absent, whatever annotation stands earlier in it; when the
\* line ends in an annotation and holds an earlier one, the dates are those of
\* the last one and the earlier one stays in the returned text.
C11_OnlyTrailingAnnotation ==
    parsed.run =>
        /\ ~EndsInForm(Line(input)) =>
               parsed.out = [text |-> Line(input), startDate |-> Null, dueDate |-> Null]
        /\ (EndsInAnnotation(input) /\ HoldsAnnotation(input.before)) =>
               /\ HoldsAnnotation(parsed.out.text)
               /\ parsed.out.text = Trim(input.before)
               /\ {parsed.out.startDate, parsed.out.dueDate} \subseteq ParserDates \cup {Null}
               /\ {parsed.out.startDate, parsed.out.dueDate} # {Null}

\* C11's case: a line with two annotations followed by text that is not
\* whitespace comes back as it was
C11_Witness ==
    /\ parsed.run
    /\ input.form = "range"
    /\ HoldsAnnotation(input.before)
    /\ ~EndsInForm(Line(input))
    /\ parsed.out.text = Line(input)
    /\ parsed.out.startDate = Null /\ parsed.out.dueDate = Null


(***************************************************************************)
(* Properties of the normalised document fields                            *)
(***************************************************************************)
\* a raw field that is a date: a string that is exactly a date token, or an
\* object of three numbers
WellFormedField(value) ==
    \/ value.type = "string" /\ IsDateToken(value.chars)
    \/ value.type = "object"

\* the documents of the vault the pass took as task notes, and the note of one
TaskNoteDocs == {f \in vault : f.path \in NoteIds(result.allTaskNotes)}

NoteOf(f) == CHOOSE n \in Range(result.allTaskNotes) : n.file = f.path

\* C12: a raw startDate or dueDate that is not a date is normalised to absent,
\* and an incomplete task note whose two fields are both such values or
\* missing is listed in No-Schedule and in no date bucket.
C12_MalformedFieldsAbsent ==
    Ran => \A f \in TaskNoteDocs :
        /\ ~WellFormedField(f.frontmatter.startDate) => NoteOf(f).startDate = Null
        /\ ~WellFormedField(f.frontmatter.dueDate) => NoteOf(f).dueDate = Null
        /\ (/\ ~WellFormedField(f.frontmatter.startDate)
            /\ ~WellFormedField(f.frontmatter.dueDate)
            /\ ~NoteOf(f).done) =>
                /\ f.path \in NoteIds(result.noSchedule)
                /\ f.path \notin AllBucketNotes


\* a raw string that starts with a date token and goes on after it
DateWithTail(value) ==
    value.type = "string" /\ DateAt(value.chars, 1) /\ Len(value.chars) > 10

\* the statement of C12 holds in every pass over a vault in which no field is
\* a date followed by more characters
C12_HoldsWithoutTail ==
    (\A f \in vault : ~DateWithTail(f.frontmatter.startDate)
                        /\ ~DateWithTail(f.frontmatter.dueDate))
        => C12_MalformedFieldsAbsent


\* every date token the pass holds: the reference date and the horizon, the
\* dates of the notes, of the inline items, of the daily notes and of their
\* items, and the keys of the buckets
ComparedTokens ==
    ({result.todayStr, result.weekLater}
        \cup UNION {Boundaries(n) : n \in Range(result.allTaskNotes)}
        \cup UNION {Boundaries(i) : i \in Range(result.allTaskItems)}
        \cup {n.date : n \in Range(result.allDailyNotes)}
        \cup UNION {Boundaries(i) : i \in UNION {Range(n.taskItems) :
                                                   n \in Range(result.allDailyNotes)}}
        \cup Keys(result.overdue) \cup Keys(result.upcoming)) \ {Null}

\* C13: every date token the engine compares is four digits, "-", two digits,
\* "-", two digits, and for every two of them the string comparison agrees
\* with the order of the calendar days.
C13_TokensCanonical ==
    Ran =>
        /\ \A t \in ComparedTokens : IsDateToken(t)
        /\ \A a, b \in ComparedTokens :
               StrLess(a, b) <=> Earlier(parseDate(a), parseDate(b))

\* a raw field that is a triple whose year does not have four digits
WideYear(value) == value.type = "object" /\ ~(value.year \in 1000..9999)

\* the statement of C13 holds in every pass over a vault without such a triple
C13_HoldsForFourDigitYears ==
    (\A f \in vault : ~WideYear(f.frontmatter.startDate)
                        /\ ~WideYear(f.frontmatter.dueDate))
        => C13_TokensCanonical


(***************************************************************************)
(* Properties of the inline items                                          *)
(***************************************************************************)
\* the text of line number lineNum (counted from 0) of a document
TextOfLine(f, lineNum) == f.lines[lineNum + 1]

\* the unchecked checkboxes of a document whose line does not end in an
\* annotation, by document and line
UnannotatedIn(f) ==
    {id \in UncheckedIn(f) : ~EndsInForm(TextOfLine(f, id[2]))}

\* the items the result lists under the date d: those of the bucket keyed d,
\* and those of Today when d is the reference date
ListedUnder(d) ==
    UNION {ItemIds(b.taskItems) : b \in {b \in Buckets : b.date = d}}
        \cup (IF d = result.todayStr THEN ItemIds(result.today.taskItems) ELSE {})

NotFrom(list, path) == SelectSeq(list, LAMBDA e : e.file # path)

\* the buckets without the entries of the document, empty buckets dropped
BucketsWithout(buckets, path) ==
    SelectSeq([i \in 1..Len(buckets) |->
                  [date |-> buckets[i].date,
                   taskItems |-> NotFrom(buckets[i].taskItems, path),
                   taskNotes |-> NotFrom(buckets[i].taskNotes, path)]],
              LAMBDA b : Len(b.taskItems) > 0 \/ Len(b.taskNotes) > 0)

\* the returned categories without the entities of the document at path
WithoutDoc(res, path) ==
    [todayStr |-> res.todayStr,
     weekLater |-> res.weekLater,
     allTaskNotes |-> NotFrom(res.allTaskNotes, path),
     allDailyNotes |-> NotFrom(res.allDailyNotes, path),
     allTaskItems |-> NotFrom(res.allTaskItems, path),
     overdue |-> BucketsWithout(res.overdue, path),
     today |-> [taskItems |-> NotFrom(res.today.taskItems, path),
                taskNotes |-> NotFrom(res.today.taskNotes, path)],
     upcoming |-> BucketsWithout(res.upcoming, path),
     noSchedule |-> NotFrom(res.noSchedule, path)]

\* a raw field that is there and is not a date
MalformedField(value) == value.type # "undefined" /\ ~WellFormedField(value)

\* a document whose fields are malformed, and a document whose read rejects
HasMalformedField(f) ==
    MalformedField(f.frontmatter.startDate) \/ MalformedField(f.frontmatter.dueDate)

ReadFails(f) == ContentRead(f) /\ ~f.readable

\* the pass returns, and the entities of the other documents are categorised
\* as they are by a pass over the vault without the document f
UnaffectedBy(f) ==
    /\ result' # Rejected
    /\ WithoutDoc(result', f.path) = getTasksByCategory(vault \ {f}, Today(clock), Today(clock'))

\* C15: in every pass, a document whose read rejects or whose fields are
\* malformed neither makes the pass fail nor changes how the entities of the
\* other documents are categorised.
C15_FailureDoesNotAbort ==
    [][\A midnight \in BOOLEAN :
           Categorize(midnight) =>
               /\ result' # Rejected
               /\ \A f \in vault : (ReadFails(f) \/ HasMalformedField(f)) => UnaffectedBy(f)]_vars

\* the statement of C15 holds for the documents with malformed fields other
\* than a date followed by more characters (which is taken as that date and
\* then keys a bucket), in the passes in which every read succeeds
C15_MalformedDoesNotAbort ==
    [][\A midnight \in BOOLEAN :
           (Categorize(midnight) /\ \A f \in vault : ~ReadFails(f)) =>
               /\ result' # Rejected
               /\ \A f \in vault :
                      (/\ HasMalformedField(f)
                       /\ ~DateWithTail(f.frontmatter.startDate)
                       /\ ~DateWithTail(f.frontmatter.dueDate)) => UnaffectedBy(f)]_vars


\* the four categories of a returned result
Categories(res) ==
    [overdue |-> res.overdue, today |-> res.today,
     upcoming |-> res.upcoming, noSchedule |-> res.noSchedule]

\* C16: a pass that follows a pass over the same vault (every change of the
\* vault discards the earlier result) with the same reference date returns
\* the same categories: same buckets in the same order with the same entries
\* in the same order.
C16_RepeatedPassEqual ==
    [][\A midnight \in BOOLEAN :
           (Ran /\ Categorize(midnight) /\ result'.todayStr = result.todayStr) =>
               Categories(result') = Categories(result)]_vars

\* the statement of C16 holds for two passes that also agree on the horizon
C16_HoldsForEqualHorizon ==
    [][\A midnight \in BOOLEAN :
           (/\ Ran /\ Categorize(midnight)
            /\ result'.todayStr = result.todayStr
            /\ result'.weekLater = result.weekLater) =>
               Categories(result') = Categories(result)]_vars


(***************************************************************************)
(* The date codec on its own: a text is put together from parts separated  *)
(* by "-", and parseDate is applied to it.                                 *)
(***************************************************************************)
CodecYears == {<<"2", "0", "2", "5">>, <<"2", "5">>, <<>>, <<"2", "0", "a", "5">>}

CodecMonths == {<<"0", "1">>, <<"1">>, <<"1", "3">>, <<>>, <<"0", "a">>}

CodecDays == {<<"1", "0">>, <<"5">>, <<"4", "5">>, <<>>, <<"0", "0">>}

Dash == <<"-">>

\* texts of one, two, three and four parts
CodecTokens ==
    CodecYears
    \cup {y \o Dash \o m : y \in CodecYears, m \in CodecMonths}
    \cup {y \o Dash \o m \o Dash \o d : y \in CodecYears, m \in CodecMonths, d \in CodecDays}
    \cup {D0110 \o Dash \o d : d \in CodecDays}

CodecInit ==
    /\ vault = {}
    /\ clock = 0
    /\ result = NoResult
    /\ window = NoWindow
    /\ dateStr \in CodecTokens
    /\ verdict = NoVerdict
    /\ input = NoInput
    /\ parsed = NotParsed

\* parseDate is applied to the text; the function has no throw statement and
\* calls nothing that throws on a string
ParseToken ==
    /\ ~parsed.run
    /\ parsed' = [run |-> TRUE, threw |-> FALSE, out |-> parseDate(dateStr)]
    /\ UNCHANGED <<vault, clock, result, window, dateStr, verdict, input>>

\* another text is drawn
Reread(token) ==
    /\ parsed.run
    /\ dateStr' = token
    /\ parsed' = NotParsed
    /\ UNCHANGED <<vault, clock, result, window, verdict, input>>

CodecNext ==
    \/ ParseToken
    \/ \E token \in CodecTokens : Reread(token)

CodecSpec == CodecInit /\ [][CodecNext]_vars

\* C17: for a text that is not exactly four digits, "-", two digits, "-", two
\* digits, parseDate fails: it throws, or at least returns no calendar day.
C17_ParseRejectsMalformed ==
    (parsed.run /\ ~IsDateToken(dateStr)) =>
        (parsed.threw \/ parsed.out = InvalidDate)

\* what parseDate does instead: it never throws, and it returns a calendar day
\* for every text whose first three parts are digits or empty
C17_ParseIsLenient ==
    parsed.run =>
        /\ ~parsed.threw
        /\ parsed.out # InvalidDate <=>
               LET parts == Split(dateStr, "-")
               IN  /\ Len(parts) >= 3
                   /\ \A k \in 1..3 : \A i \in 1..Len(parts[k]) : IsDigit(parts[k][i])


(***************************************************************************)
(* The calendar grid on its own: a year and a month (counted from 0, as    *)
(* the calendar component keeps them) are drawn and getCalendarDays is     *)
(* applied to them.                                                        *)
(***************************************************************************)
CalendarYears == {50, 2023, 2024, 2025, 2026, 2027}

CalendarInputs == [year : CalendarYears, month : 0..11]

CalendarInit ==
    /\ vault = {}
    /\ clock = 0
    /\ result = NoResult
    /\ window = NoWindow
    /\ dateStr = Null
    /\ verdict = NoVerdict
    /\ input \in CalendarInputs
    /\ parsed = NotParsed

\* getCalendarDays is applied
Lay ==
    /\ ~parsed.run
    /\ parsed' = [run |-> TRUE, out |-> getCalendarDays(input.year, input.month)]
    /\ UNCHANGED <<vault, clock, result, window, dateStr, verdict, input>>

\* the calendar shows another month
Turn(in) ==
    /\ parsed.run
    /\ input' = in
    /\ parsed' = NotParsed
    /\ UNCHANGED <<vault, clock, result, window, dateStr, verdict>>

CalendarNext ==
    \/ Lay
    \/ \E in \in CalendarInputs : Turn(in)

CalendarSpec == CalendarInit /\ [][CalendarNext]_vars

\* the cells of the grid read in order, and the first day of the month shown
GridCells == Concat(parsed.out)

GridFirst == NewDate(input.year, input.month, 1)

\* C18: every week has seven cells; the cells that are not empty are the days
\* 1..last day of the month, once each and ascending; the empty cells are the
\* first getDay(day 1) cells of the first week and cells after the last day
\* in the last week; no week is empty.
C18_GridCoversMonth ==
    parsed.run =>
        LET lead == getDay(GridFirst)
            last == DaysInMonth(GridFirst.year, GridFirst.month)
        IN  /\ \A w \in 1..Len(parsed.out) : Len(parsed.out[w]) = 7
            /\ Len(GridCells) \in (lead + last)..(lead + last + 6)
            /\ \A i \in 1..Len(GridCells) :
                   GridCells[i] =
                       IF i \in (lead + 1)..(lead + last)
                       THEN <<[GridFirst EXCEPT !.day = i - lead]>>
                       ELSE Null
            /\ \A w \in 1..Len(parsed.out) :
                   \E k \in 1..7 : parsed.out[w][k] # Null

\* C18's case: a month that begins on a Sunday and fills four weeks exactly
C18_Witness ==
    /\ parsed.run
    /\ getDay(GridFirst) = 0
    /\ Len(parsed.out) = 4
    /\ parsed.out[1][1] = <<GridFirst>>
    /\ parsed.out[4][7] # Null


(***************************************************************************)
(* The task tree on its own (components/TaskListComponent.ts): a list of   *)
(* task items is handed to renderTaskItems, which builds the tree and      *)
(* renders it. Here a TaskItem is [file, line, breadcrumbs] with file the  *)
(* document [path, basename]. A TaskTreeNode is [path, label, items]: the  *)
(* nested Maps of the code are kept as the sequence of all nodes in the    *)
(* order of their creation, each with its path from the root, so that the  *)
(* children of a node, in the insertion order of its Map, are the nodes    *)
(* one segment below it in the order of the sequence.                      *)
(***************************************************************************)
MaxItems == 3

\* the root: { label: "", children: new Map(), items: [] }
Root == [path |-> <<>>, label |-> <<>>, items |-> <<>>]

\* the path of an item: the basename unless the document is a daily note,
\* then the breadcrumbs
PathOf(item) ==
    (IF isDailyNote(item.file) THEN <<>> ELSE <<item.file.basename>>) \o item.breadcrumbs

\* node.children.has(segment), for the node at the path one segment shorter
HasNode(tree, path) == \E i \in 1..Len(tree) : tree[i].path = path

RECURSIVE Descend(_, _, _)
\* the loop over the segments of a path from segment k on: a child that is
\* not there is created
Descend(tree, path, k) ==
    IF k > Len(path) THEN tree
    ELSE Descend(IF HasNode(tree, SubSeq(path, 1, k)) THEN tree
                 ELSE Append(tree, [path |-> SubSeq(path, 1, k),
                                    label |-> path[k],
                                    items |-> <<>>]),
                 path, k + 1)

\* node.items.push(item) at the node the path leads to
PushItem(tree, path, item) ==
    [i \in 1..Len(tree) |->
        IF tree[i].path = path THEN [tree[i] EXCEPT !.items = Append(@, item)]
        ELSE tree[i]]

RECURSIVE BuildFrom(_, _, _)
\* the loop over the items from item k on
BuildFrom(tree, items, k) ==
    IF k > Len(items) THEN tree
    ELSE BuildFrom(PushItem(Descend(tree, PathOf(items[k]), 1), PathOf(items[k]), items[k]),
                   items, k + 1)

\* TaskListComponent.buildTaskTree
buildTaskTree(items) == BuildFrom(<<Root>>, items, 1)

\* the node at a path, and the values of its children Map in insertion order
NodeAt(tree, path) == tree[CHOOSE i \in 1..Len(tree) : tree[i].path = path]

ChildrenOf(tree, path) ==
    SelectSeq(tree, LAMBDA n : /\ Len(n.path) = Len(path) + 1
                               /\ SubSeq(n.path, 1, Len(path)) = path)

\* what rendering emits: a row per task item and a label per group, each with
\* its depth (the left padding is depth * 16 px)
Leaf(item, depth) == [kind |-> "leaf", item |-> item, label |-> <<>>, depth |-> depth]

Label(node, depth) == [kind |-> "label", item |-> Root, label |-> node.label, depth |-> depth]

RECURSIVE renderTreeChildren(_, _, _)
RECURSIVE renderTreeGroup(_, _, _)
RECURSIVE renderGroups(_, _, _, _)

\* a faulty variant of renderTreeChildren: the child groups are rendered
\* before the items of the node
renderTreeChildrenGroupsFirst(tree, path, depth) ==
    LET node == NodeAt(tree, path)
    IN  renderGroups(tree, ChildrenOf(tree, path), depth, 1)
            \o [i \in 1..Len(node.items) |-> Leaf(node.items[i], depth)]

\* TaskListComponent.renderTreeChildren: the items of the node, then its
\* child groups
renderTreeChildren(tree, path, depth) ==
    LET node == NodeAt(tree, path)
    IN  [i \in 1..Len(node.items) |-> Leaf(node.items[i], depth)]
            \o renderGroups(tree, ChildrenOf(tree, path), depth, 1)

\* the loop over node.children from child k on
renderGroups(tree, children, depth, k) ==
    IF k > Len(children) THEN <<>>
    ELSE renderTreeGroup(tree, children[k], depth)
             \o renderGroups(tree, children, depth, k + 1)

\* TaskListComponent.renderTreeGroup: the label, then the children one level
\* deeper
renderTreeGroup(tree, node, depth) ==
    <<Label(node, depth)>> \o renderTreeChildren(tree, node.path, depth + 1)

\* TaskListComponent.renderTaskItems
renderTaskItems(items) == renderTreeChildren(buildTaskTree(items), <<>>, 0)

\* documents: two with the same basename in different folders, a daily note
TreeFileA == [path |-> <<"a", "/", "b", ".", "m", "d">>, basename |-> <<"b">>]

TreeFileB == [path |-> <<"x", "/", "b", ".", "m", "d">>, basename |-> <<"b">>]

TreeDaily == [path |-> D0110 \o DotMd, basename |-> D0110]

\* the task items the lists are made of
TreeItems ==
    {[file |-> TreeFileA, line |-> 1, breadcrumbs |-> <<>>],
     [file |-> TreeFileA, line |-> 2, breadcrumbs |-> <<>>],
     [file |-> TreeFileA, line |-> 4, breadcrumbs |-> <<<<"a">>>>],
     [file |-> TreeFileA, line |-> 6, breadcrumbs |-> <<<<"a">>, <<"d">>>>],
     [file |-> TreeFileB, line |-> 1, breadcrumbs |-> <<>>],
     [file |-> TreeFileB, line |-> 3, breadcrumbs |-> <<<<"a">>>>],
     [file |-> TreeDaily, line |-> 0, breadcrumbs |-> <<>>],
     [file |-> TreeDaily, line |-> 2, breadcrumbs |-> <<<<"a">>>>],
     [file |-> TreeDaily, line |-> 3, breadcrumbs |-> <<<<"b">>>>]}

TreeInit ==
    /\ vault = {}
    /\ clock = 0
    /\ result = NoResult
    /\ window = NoWindow
    /\ dateStr = Null
    /\ verdict = NoVerdict
    /\ input = <<>>
    /\ parsed = NotParsed

\* one more task item in the list of a section
Add(item) ==
    /\ Len(input) < MaxItems
    /\ item \notin Range(input)
    /\ input' = Append(input, item)
    /\ parsed' = NotParsed
    /\ UNCHANGED <<vault, clock, result, window, dateStr, verdict>>

\* renderTaskItems on the list: the tree is built and rendered
Render ==
    /\ ~parsed.run
    /\ parsed' = [run |-> TRUE, tree |-> buildTaskTree(input), out |-> renderTaskItems(input)]
    /\ UNCHANGED <<vault, clock, result, window, dateStr, verdict, input>>

\* the section is emptied
Clear ==
    /\ input # <<>>
    /\ input' = <<>>
    /\ parsed' = NotParsed
    /\ UNCHANGED <<vault, clock, result, window, dateStr, verdict>>

TreeNext ==
    \/ \E item \in TreeItems : Add(item)
    \/ Render
    \/ Clear

TreeSpec == TreeInit /\ [][TreeNext]_vars


(***************************************************************************)
(* Claims about the task tree, under TreeSpec.                             *)
(***************************************************************************)
Built == parsed.run

\* the path C19 and C20 speak of: the basename of the document, only if the
\* document is not a daily note, followed by the breadcrumbs of the item
ClaimedPath(item) ==
    IF parseDailyNoteDate(item.file) # Null THEN item.breadcrumbs
    ELSE <<item.file.basename>> \o item.breadcrumbs

\* the places <<i, j>> of the tree where an item is held
PlacesOf(tree, item) ==
    {pl \in (1..Len(tree)) \X (1..MaxItems) :
        /\ pl[2] <= Len(tree[pl[1]].items)
        /\ tree[pl[1]].items[pl[2]] = item}

IsPrefix(p, q) == Len(p) <= Len(q) /\ SubSeq(q, 1, Len(p)) = p

\* every input item is held exactly once, by the node at its path
PlacedOnce(tree, items) ==
    \A k \in 1..Len(items) :
        /\ Cardinality(PlacesOf(tree, items[k])) = 1
        /\ \A pl \in PlacesOf(tree, items[k]) : tree[pl[1]].path = ClaimedPath(items[k])

\* nothing but input items is held
HoldsOnlyInput(tree, items) ==
    \A i \in 1..Len(tree) : Range(tree[i].items) \subseteq Range(items)

\* nodes exist only for prefixes of the paths of the items, once each
OnlyPrefixNodes(tree, items) ==
    /\ \A i \in 1..Len(tree) :
           \/ tree[i].path = <<>>
           \/ \E k \in 1..Len(items) : IsPrefix(tree[i].path, ClaimedPath(items[k]))
    /\ \A i, j \in 1..Len(tree) : tree[i].path = tree[j].path => i = j

\* the label of a node is the last segment of its path, the root's is empty
LabelIsLastSegment(tree) ==
    \A i \in 1..Len(tree) :
        tree[i].label = IF tree[i].path = <<>> THEN <<>>
                        ELSE tree[i].path[Len(tree[i].path)]

\* two items of one node are of the same document, with the same breadcrumbs
SharedOnlyWithinDocument(tree) ==
    \A i \in 1..Len(tree) : \A x, y \in Range(tree[i].items) :
        x.file = y.file /\ x.breadcrumbs = y.breadcrumbs

\* C19: buildTaskTree places every input item exactly once, in the node
\* reached by the path [basename unless the document is a daily note]
\* followed by the breadcrumbs; nodes exist only for prefixes of such paths;
\* the label of a node is its last path segment; two items share a node only
\* if they are of the same document and have the same ancestor chain.
C19_TreePlacement ==
    Built =>
        /\ PlacedOnce(parsed.tree, input)
        /\ HoldsOnlyInput(parsed.tree, input)
        /\ OnlyPrefixNodes(parsed.tree, input)
        /\ LabelIsLastSegment(parsed.tree)
        /\ SharedOnlyWithinDocument(parsed.tree)

\* what does hold of buildTaskTree: the placement, the nodes and the labels
\* as in C19, and two items share a node exactly when their paths are equal
\* (documents with the same basename are not told apart, nor is a heading of
\* a daily note from a document of that name).
C19_SharedExactlyOnEqualPath ==
    Built =>
        /\ PlacedOnce(parsed.tree, input)
        /\ HoldsOnlyInput(parsed.tree, input)
        /\ OnlyPrefixNodes(parsed.tree, input)
        /\ LabelIsLastSegment(parsed.tree)
        /\ \A x, y \in Range(input) :
               (\E i \in 1..Len(parsed.tree) : {x, y} \subseteq Range(parsed.tree[i].items))
                   <=> ClaimedPath(x) = ClaimedPath(y)

\* two documents of one basename were in the list and share a node
C19_SameBasenameShared ==
    /\ Built
    /\ \E i \in 1..Len(parsed.tree) : \E x, y \in Range(parsed.tree[i].items) :
           x.file # y.file

\* where a row of an item is in the output, and where the item is in the input
RowsOf(out, item) == {r \in 1..Len(out) : out[r].kind = "leaf" /\ out[r].item = item}

IndexOf(items, item) == CHOOSE k \in 1..Len(items) : items[k] = item

\* the item of the input by which a path was first encountered
FirstSeen(items, path) ==
    CHOOSE k \in 1..Len(items) :
        /\ IsPrefix(path, ClaimedPath(items[k]))
        /\ \A m \in 1..(k - 1) : ~IsPrefix(path, ClaimedPath(items[m]))

\* the first segment at which two paths, neither a prefix of the other, part
Parting(p, q) == CHOOSE d \in 1..Len(p) : p[d] # q[d] /\ \A e \in 1..(d - 1) : p[e] = q[e]

\* item x is emitted before item y in a depth-first traversal that emits the
\* items of a node first, in input order, and then the child groups in the
\* order in which their segments were first encountered
DepthFirstBefore(items, x, y) ==
    LET p == ClaimedPath(x)
        q == ClaimedPath(y)
    IN  IF p = q THEN IndexOf(items, x) < IndexOf(items, y)
        ELSE IF IsPrefix(p, q) THEN TRUE
        ELSE IF IsPrefix(q, p) THEN FALSE
        ELSE FirstSeen(items, SubSeq(p, 1, Parting(p, q)))
                 < FirstSeen(items, SubSeq(q, 1, Parting(p, q)))

\* the row of an item at depth n > 0 is within the group of its last segment:
\* the nearest row above it of a lesser depth is the label of that segment,
\* one level up
UnderItsLabel(out, r) ==
    LET path == ClaimedPath(out[r].item)
        above == {a \in 1..(r - 1) : out[a].depth < out[r].depth}
    IN  path # <<>> =>
            /\ above # {}
            /\ LET a == CHOOSE a \in above : \A c \in above : c <= a
               IN  /\ out[a].kind = "label"
                   /\ out[a].label = path[Len(path)]
                   /\ out[a].depth = Len(path) - 1

\* C20: rendering traverses the tree depth-first: the items of a node first,
\* in input order, then each child group in the order in which its segment
\* was first encountered in the input; every input item is emitted exactly
\* once, at a depth equal to the length of its path.
C20_DepthFirstItemsFirst ==
    Built =>
        /\ \A k \in 1..Len(input) :
               /\ Cardinality(RowsOf(parsed.out, input[k])) = 1
               /\ \A r \in RowsOf(parsed.out, input[k]) :
                      /\ parsed.out[r].depth = Len(ClaimedPath(input[k]))
                      /\ UnderItsLabel(parsed.out, r)
        /\ \A r \in 1..Len(parsed.out) :
               parsed.out[r].kind = "leaf" => parsed.out[r].item \in Range(input)
        /\ Cardinality({r \in 1..Len(parsed.out) : parsed.out[r].kind = "label"})
               = Len(parsed.tree) - 1
        /\ \A x, y \in Range(input) : \A r \in RowsOf(parsed.out, x) :
               \A t \in RowsOf(parsed.out, y) :
                   x # y => (r < t <=> DepthFirstBefore(input, x, y))

\* a list was rendered in which an item of a group comes before an item of
\* its parent node, and a group first encountered earlier has the greater
\* label
C20_Witness ==
    /\ Built
    /\ \E x, y \in Range(input) :
           /\ ClaimedPath(y) # ClaimedPath(x)
           /\ IsPrefix(ClaimedPath(y), ClaimedPath(x))
           /\ IndexOf(input, x) < IndexOf(input, y)
    /\ \E a, c \in 1..Len(parsed.out) :
           /\ a < c
           /\ parsed.out[a].kind = "label"
           /\ parsed.out[c].kind = "label"
           /\ parsed.out[a].depth = parsed.out[c].depth
           /\ ~StrLeq(parsed.out[a].label, parsed.out[c].label)


(***************************************************************************)
(* Breadcrumbs (TaskService.buildBreadcrumbs), one loop iteration at a     *)
(* time. The document is [lines, listItems]; listItems come from the       *)
(* metadata cache of the host, which gives a root item the negated line of *)
(* the first item of its list as parent: a negative number, or 0 for a     *)
(* list that starts at line 0.                                             *)
(***************************************************************************)
MaxVisits == 4

RECURSIVE NextOf(_, _, _)
\* the least index >= i of s that holds c, or 0
NextOf(s, i, c) ==
    IF i > Len(s) THEN 0 ELSE IF s[i] = c THEN i ELSE NextOf(s, i + 1, c)

RECURSIVE StripDouble(_, _, _)
\* text.replace(/cc([^c]+)cc/g, "$1") from index i on
StripDouble(s, i, c) ==
    IF i > Len(s) THEN <<>>
    ELSE LET j == NextOf(s, i + 2, c)
         IN  IF /\ i + 1 <= Len(s) /\ s[i] = c /\ s[i + 1] = c
                /\ j >= i + 3 /\ j + 1 <= Len(s) /\ s[j + 1] = c
             THEN SubSeq(s, i + 2, j - 1) \o StripDouble(s, j + 2, c)
             ELSE <<s[i]>> \o StripDouble(s, i + 1, c)

RECURSIVE StripSingle(_, _, _)
\* text.replace(/c([^c]+)c/g, "$1") from index i on
StripSingle(s, i, c) ==
    IF i > Len(s) THEN <<>>
    ELSE LET j == NextOf(s, i + 1, c)
         IN  IF s[i] = c /\ j >= i + 2
             THEN SubSeq(s, i + 1, j - 1) \o StripSingle(s, j + 1, c)
             ELSE <<s[i]>> \o StripSingle(s, i + 1, c)

RECURSIVE EndOfWord(_, _)
\* the last index of the run of non-space characters that starts at i
EndOfWord(s, i) ==
    IF i + 1 <= Len(s) /\ ~IsSpace(s[i + 1]) THEN EndOfWord(s, i + 1) ELSE i

RECURSIVE StripHash(_, _)
\* text.replace(/#(\S+)/g, "$1") from index i on
StripHash(s, i) ==
    IF i > Len(s) THEN <<>>
    ELSE IF s[i] = "#" /\ i + 1 <= Len(s) /\ ~IsSpace(s[i + 1])
         THEN SubSeq(s, i + 1, EndOfWord(s, i + 1)) \o StripHash(s, EndOfWord(s, i + 1) + 1)
         ELSE <<s[i]>> \o StripHash(s, i + 1)

\* TaskService.stripMarkdown, for texts without "[" and without a backquote:
\* the three link rules and the code rule, which need one, are left out; the
\* other rules in the order of the code
stripMarkdown(text) ==
    StripHash(
        StripDouble(
            StripDouble(
                StripSingle(
                    StripSingle(
                        StripDouble(StripDouble(text, 1, "*"), 1, "_"),
                        1, "*"),
                    1, "_"),
                1, "~"),
            1, "="),
        1)

\* parentText.replace(/^[\s]*-\s*(\[.\]\s*)?/, "").trim()
StripBullet(parentText) ==
    LET i == SkipSpace(parentText, 1)
        j == SkipSpace(parentText, i + 1)
        bullet == i <= Len(parentText) /\ parentText[i] = "-"
        box == /\ j + 2 <= Len(parentText)
               /\ parentText[j] = "[" /\ parentText[j + 2] = "]"
    IN  Trim(IF ~bullet THEN parentText
             ELSE IF box THEN SubSeq(parentText, SkipSpace(parentText, j + 3), Len(parentText))
             ELSE SubSeq(parentText, j, Len(parentText)))

\* lineToItem.has(line) and lineToItem.get(line): a later list item of the
\* same line replaces an earlier one
HasItem(listItems, line) == \E k \in 1..Len(listItems) : listItems[k].line = line

LineToItem(listItems, line) ==
    listItems[CHOOSE k \in 1..Len(listItems) :
                  /\ listItems[k].line = line
                  /\ \A m \in (k + 1)..Len(listItems) : listItems[m].line # line]

\* the text of one ancestor, as the loop body computes it
ParentText(lines, parentLine) ==
    stripMarkdown(extractDatesFromText(StripBullet(LineAt(lines, parentLine))).text)

\* what follows the dash of a list item, and the character in its checkbox
ItemTexts ==
    <<<<"[", " ", "]", " ", "a", " ", "@">> \o D0110,
      <<"[", " ", "]", " ", "@">> \o D0110,
      <<"*", "b", "*", " ", "#", "c">>,
      <<"[", "x", "]", " ", "d">>>>

ItemTasks == <<" ", " ", Null, "x">>

\* the parents of three list items on consecutive lines, and the line of the
\* first of them
Shapes ==
    {[first |-> 1, parents |-> <<-1, 1, 2>>],
     [first |-> 1, parents |-> <<-1, -1, -1>>],
     [first |-> 1, parents |-> <<-1, 1, 1>>],
     [first |-> 1, parents |-> <<-1, 7, 2>>],
     [first |-> 0, parents |-> <<0, 0, 1>>]}

RECURSIVE Indent(_)
Indent(n) == IF n = 0 THEN <<>> ELSE <<" ", " ">> \o Indent(n - 1)

\* the nesting level of item k of a shape
LevelOf(shape, k) ==
    IF shape.parents[k] < 0 \/ shape.parents[k] = shape.first + k - 1 THEN 0
    ELSE IF shape.parents[k] = shape.first THEN 1
    ELSE 2

\* the document of a shape whose item k holds the text texts[k]
BreadcrumbDoc(shape, texts) ==
    [lines |->
        (IF shape.first = 1 THEN <<<<"a">>>> ELSE <<>>)
            \o [k \in 1..3 |-> Indent(LevelOf(shape, k)) \o <<"-", " ">> \o ItemTexts[texts[k]]],
     listItems |->
        [k \in 1..3 |-> [line |-> shape.first + k - 1,
                         task |-> ItemTasks[texts[k]],
                         parent |-> shape.parents[k]]]]

BreadcrumbDocs ==
    {BreadcrumbDoc(shape, texts) : shape \in Shapes, texts \in [1..3 -> 1..Len(ItemTexts)]}

NoDoc == [lines |-> <<>>, listItems |-> <<>>]

\* the loop has not been entered
NotCalled == [run |-> FALSE, pc |-> "idle", item |-> 0, parentLine |-> -1,
              breadcrumbs |-> <<>>, visited |-> <<>>]

BreadcrumbInit ==
    /\ vault = {}
    /\ clock = 0
    /\ result = NoResult
    /\ window = NoWindow
    /\ dateStr = Null
    /\ verdict = NoVerdict
    /\ input = NoDoc
    /\ parsed = NotCalled

\* a document is read and its metadata taken from the cache
Open(doc) ==
    /\ input' = doc
    /\ parsed' = NotCalled
    /\ UNCHANGED <<vault, clock, result, window, dateStr, verdict>>

\* buildBreadcrumbs(item, lineToItem, lines) is entered for list item k
Call(k) ==
    /\ k \in 1..Len(input.listItems)
    /\ parsed' = [run |-> FALSE, pc |-> "loop", item |-> k,
                  parentLine |-> input.listItems[k].parent,
                  breadcrumbs |-> <<>>, visited |-> <<>>]
    /\ UNCHANGED <<vault, clock, result, window, dateStr, verdict, input>>

\* one iteration of the while loop; visited records the lines it has been at
Iterate ==
    /\ parsed.pc = "loop"
    /\ parsed.parentLine >= 0
    /\ HasItem(input.listItems, parsed.parentLine)
    /\ Len(parsed.visited) < MaxVisits
    /\ parsed' =
          [parsed EXCEPT
              !.breadcrumbs =
                  IF ParentText(input.lines, parsed.parentLine) # <<>>
                  THEN <<ParentText(input.lines, parsed.parentLine)>> \o @
                  ELSE @,
              !.visited = Append(@, parsed.parentLine),
              !.parentLine = LineToItem(input.listItems, parsed.parentLine).parent]
    /\ UNCHANGED <<vault, clock, result, window, dateStr, verdict, input>>

\* the loop is left, by its condition or by the break, and breadcrumbs returned
Return ==
    /\ parsed.pc = "loop"
    /\ parsed.parentLine < 0 \/ ~HasItem(input.listItems, parsed.parentLine)
    /\ parsed' = [parsed EXCEPT !.run = TRUE, !.pc = "done"]
    /\ UNCHANGED <<vault, clock, result, window, dateStr, verdict, input>>

BreadcrumbNext ==
    \/ \E doc \in BreadcrumbDocs : Open(doc)
    \/ \E k \in 1..3 : Call(k)
    \/ Iterate
    \/ Return

BreadcrumbSpec == BreadcrumbInit /\ [][BreadcrumbNext]_vars

(***************************************************************************)
(* Claims about the breadcrumbs, under BreadcrumbSpec.                     *)
(***************************************************************************)
Returned == parsed.pc = "done"

\* the item the call is for, and whether it is top-level: its parent is
\* negative, or is the item itself (a root list at line 0)
CalledItem == input.listItems[parsed.item]

TopLevel(item) == item.parent < 0 \/ item.parent = item.line

RECURSIVE AncestorLines(_, _, _)
\* the lines of the ancestors of a list item, outermost first
AncestorLines(listItems, item, fuel) ==
    IF fuel = 0 \/ TopLevel(item) \/ ~HasItem(listItems, item.parent) THEN <<>>
    ELSE AncestorLines(listItems, LineToItem(listItems, item.parent), fuel - 1)
             \o <<item.parent>>

Ancestors == AncestorLines(input.listItems, CalledItem, Len(input.listItems))

\* the text of a list item with its checkbox marker and trailing annotation
\* removed
MarkerAndAnnotationRemoved(line) == extractDatesFromText(StripBullet(line)).text

\* C21: the breadcrumbs of an inline item are the texts of all of its
\* ancestor list items, one entry per ancestor, outermost first, each with
\* its checkbox marker and trailing annotation removed; they are empty
\* exactly when the item is top-level.
C21_BreadcrumbsAreAncestorTexts ==
    Returned =>
        /\ parsed.breadcrumbs =
              [k \in 1..Len(Ancestors) |->
                  MarkerAndAnnotationRemoved(LineAt(input.lines, Ancestors[k]))]
        /\ parsed.breadcrumbs = <<>> <=> TopLevel(CalledItem)

NonEmpty(text) == text # <<>>

\* what does hold of the breadcrumbs that are returned: they are the texts of
\* the ancestors, outermost first, with the markdown syntax removed as well,
\* and without an entry for an ancestor whose text is then empty.
C21_NonEmptyPlainTexts ==
    Returned =>
        parsed.breadcrumbs =
            SelectSeq([k \in 1..Len(Ancestors) |->
                          stripMarkdown(MarkerAndAnnotationRemoved(
                              LineAt(input.lines, Ancestors[k])))],
                      NonEmpty)

\* breadcrumbs were returned for an item two levels deep
C21_NestedReturned == Returned /\ Len(Ancestors) = 2 /\ Len(parsed.breadcrumbs) = 2

\* C27: buildBreadcrumbs terminates for every item and every parent linkage
\* of the metadata (a negative parent, or any line number, the own line of
\* the item included): no ancestor is visited more than once and the
\* breadcrumbs are no more than the list items of the document.
C27_EachAncestorOnce ==
    /\ \A a, c \in 1..Len(parsed.visited) : parsed.visited[a] = parsed.visited[c] => a = c
    /\ Len(parsed.breadcrumbs) <= Len(input.listItems)
    /\ parsed.pc = "loop" => Len(parsed.visited) < Len(input.listItems)

\* what does hold: the same for a document none of whose list items is its own
\* parent.
C27_HoldsWithoutSelfParent ==
    (\A k \in 1..Len(input.listItems) : input.listItems[k].parent # input.listItems[k].line)
        => /\ \A a, c \in 1..Len(parsed.visited) :
                  parsed.visited[a] = parsed.visited[c] => a = c
           /\ Len(parsed.breadcrumbs) <= Len(input.listItems)
           /\ parsed.pc = "loop" => Len(parsed.visited) < Len(input.listItems)

\* the loop is at the item of line 0 for the second time
C27_Revisited ==
    /\ parsed.pc = "loop"
    /\ Len(parsed.visited) >= 2
    /\ parsed.visited[1] = parsed.visited[2]


(***************************************************************************)
(* Independence of the entities, under Spec.                               *)
(***************************************************************************)
\* where the entities of the document at path are listed in a sequence of
\* buckets: the dates, with the entity listed (its line, a note has none)
ListedIn(buckets, path) ==
    UNION {{<<buckets[i].date, "item", e.line, e.startDate, e.dueDate>> :
               e \in {e \in Range(buckets[i].taskItems) : e.file = path}}
           \cup {<<buckets[i].date, "note", 0, e.startDate, e.dueDate>> :
               e \in {e \in Range(buckets[i].taskNotes) : e.file = path}} :
           i \in 1..Len(buckets)}

\* the listings under the own due date of the entity
UnderDueDate(listed) == {l \in listed : l[1] = l[5]}

\* C25: whether an incomplete TaskNote or inline TaskItem is listed under a
\* given date in Overdue or in Upcoming depends on its own schedule and the
\* reference date only: the pass over the vault without any other document
\* lists it under the same dates.
C25_BucketedIndependently ==
    [][\A midnight \in BOOLEAN :
           (Categorize(midnight) /\ result' # Rejected) =>
               \A g \in vault : \A f \in vault \ {g} :
                   /\ ListedIn(result'.overdue, f.path)
                        = ListedIn(getTasksByCategory(vault \ {g}, Today(clock),
                                                      Today(clock')).overdue, f.path)
                   /\ ListedIn(result'.upcoming, f.path)
                        = ListedIn(getTasksByCategory(vault \ {g}, Today(clock),
                                                      Today(clock')).upcoming, f.path)]_vars

\* what does hold: the listings in Upcoming, and in Overdue the listings of an
\* entity under its own due date, are the same without any other document;
\* under its start date an entity is listed in Overdue only when the date
\* keys a bucket for another reason.
C25_IndependentUnderDueDate ==
    [][\A midnight \in BOOLEAN :
           (Categorize(midnight) /\ result' # Rejected) =>
               \A g \in vault : \A f \in vault \ {g} :
                   /\ UnderDueDate(ListedIn(result'.overdue, f.path))
                        = UnderDueDate(ListedIn(
                              getTasksByCategory(vault \ {g}, Today(clock),
                                                 Today(clock')).overdue, f.path))
                   /\ ListedIn(result'.upcoming, f.path)
                        = ListedIn(getTasksByCategory(vault \ {g}, Today(clock),
                                                      Today(clock')).upcoming, f.path)]_vars


(***************************************************************************)
(* The view and its passes, one segment between two reads at a time        *)
(* (views/JournaliteView.ts, services/TaskService.ts).                     *)
(* render() empties the container, creates a new task list component and   *)
(* awaits getTasksByCategory(); the pass suspends at every                 *)
(* `await vault.cachedRead(file)` and other handlers run meanwhile: a      *)
(* second render, or a change of the vault. A document is a TFile object:  *)
(* it keeps its identity (id) when it is renamed, and the arrays of a pass *)
(* hold the objects, so a pass sees the path a document has when it looks. *)
(* A pass is [pc, seq, todayStr, weekLater, allTaskNotes, files, k,        *)
(* incompleteTasks, date, notes, items, tasks] and, for the properties,    *)
(* seen (the vault when it started), stable (the vault has not changed     *)
(* since) and overlapped (another pass was pending while it was).          *)
(***************************************************************************)
MaxPasses == 2

MaxViewFiles == 2

\* the renames and modifications made in a behaviour
MaxChanges == 2

NoChanges == [changes |-> 0]

\* a document of the catalog as a TFile object
WithId(f, id) ==
    [id |-> id, path |-> f.path, basename |-> f.basename, frontmatter |-> f.frontmatter,
     listItems |-> f.listItems, lines |-> f.lines, readable |-> f.readable]

\* the documents the vault of the view is populated from: a daily note and a
\* document with an annotated checkbox each, a task note, and a document whose
\* content cannot be read
ViewFiles ==
    <<WithId(ListFile(D0110 \o DotMd, D0110, " ", Tagged(D0110)), 1),
      WithId(ListFile(<<"d", "2">> \o DotMd, <<"d", "2">>, " ",
                      Tagged(D0110 \o Dots \o D0204)), 2),
      WithId(NoteFile(<<>>, 1, "false", Undefined, StringValue(D0110)), 3),
      WithId([ListFile(<<"d", "8">> \o DotMd, <<"d", "8">>, " ", Tagged(D0110))
                 EXCEPT !.readable = FALSE], 4)>>

\* the name a document is renamed to, and back from
OtherBasename == <<<<"d", "1">>, D0120, <<"a", "2">>, <<"d", "9">>>>

\* the content a document is modified to, and back from: the annotation of
\* its checkbox changes, its list items stay on their lines
OtherLines ==
    <<<<<<"a">>, CheckboxLine(" ", Tagged(D0204))>>,
      <<<<"a">>, CheckboxLine(" ", Tagged(D0110))>>,
      <<>>,
      <<<<"a">>, CheckboxLine(" ", Tagged(D0204))>>>>

FileById(v, id) == CHOOSE f \in v : f.id = id

\* the TFile objects of an array of getMarkdownFiles()
IdsOf(files) == [i \in 1..Len(files) |-> files[i].id]

\* the TaskNotes, TaskItems and DailyNotes of a pass refer to the TFile
TaskNotesOf(v) ==
    LET notes == getAllTaskNotes(v)
    IN  [i \in 1..Len(notes) |->
            [notes[i] EXCEPT !.file = (CHOOSE f \in v : f.path = notes[i].file).id]]

\* the items extractTaskItems and getAllTaskItems build once the content is
\* read: of the unchecked list items found in the cache before the read
ItemsRead(file, incompleteTasks) ==
    [i \in 1..Len(incompleteTasks) |->
        [TaskItemOf(file, incompleteTasks[i]) EXCEPT !.file = file.id]]

IdlePass ==
    [pc |-> "idle", seq |-> 0, todayStr |-> Null, weekLater |-> Null,
     allTaskNotes |-> <<>>, files |-> <<>>, k |-> 0, incompleteTasks |-> <<>>,
     date |-> Null, notes |-> <<>>, items |-> <<>>, tasks |-> NoResult,
     seen |-> {}, stable |-> TRUE, overlapped |-> FALSE]

\* a faulty variant of NotesOf: the array is shared by the passes
NotesShared(passes, p) == passes[1].notes

\* the notes array of pass p, a local of its call of getAllDailyNotes
NotesOf(passes, p) == passes[p].notes

RECURSIVE RunItems(_, _)
\* the loop of getAllTaskItems from file k on, up to the next read: the pass
\* is left at the file whose content it awaits, or at "finish"
RunItems(pass, v) ==
    IF pass.k > Len(pass.files) THEN [pass EXCEPT !.pc = "finish"]
    ELSE LET file == FileById(v, pass.files[pass.k])
             incompleteTasks == SelectSeq(file.listItems, IsIncompleteTask)
         IN  IF \/ isTemplateFile(file)
                \/ isDailyNote(file)
                \/ incompleteTasks = <<>>
             THEN RunItems([pass EXCEPT !.k = @ + 1], v)
             ELSE [pass EXCEPT !.pc = "items", !.incompleteTasks = incompleteTasks]

RECURSIVE RunDaily(_, _)
\* the loop of getAllDailyNotes from file k on, up to the next read; after
\* the last file getAllTaskItems is entered
RunDaily(pass, v) ==
    IF pass.k > Len(pass.files)
    THEN RunItems([pass EXCEPT !.files = IdsOf(getMarkdownFiles(v)), !.k = 1], v)
    ELSE LET file == FileById(v, pass.files[pass.k])
             date == parseDailyNoteDate(file)
             incompleteTasks == SelectSeq(file.listItems, IsIncompleteTask)
         IN  IF isTemplateFile(file) \/ date = Null
             THEN RunDaily([pass EXCEPT !.k = @ + 1], v)
             ELSE IF incompleteTasks = <<>>
             THEN RunDaily([pass EXCEPT
                               !.notes = Append(@, [file |-> file.id, date |-> date,
                                                    taskItems |-> <<>>]),
                               !.k = @ + 1], v)
             ELSE [pass EXCEPT !.pc = "daily", !.date = date,
                               !.incompleteTasks = incompleteTasks]

\* the categories getTasksByCategory returns from what the pass has gathered
Gathered(pass) ==
    [todayStr |-> pass.todayStr,
     weekLater |-> pass.weekLater,
     allTaskNotes |-> pass.allTaskNotes,
     allDailyNotes |-> pass.notes,
     allTaskItems |-> pass.items,
     overdue |-> BuildBuckets(
         OverdueDates(pass.todayStr, pass.notes, pass.allTaskNotes, pass.items),
         pass.notes, pass.allTaskNotes, pass.items),
     today |-> TodayData(pass.todayStr, pass.notes, pass.allTaskNotes, pass.items),
     upcoming |-> BuildBuckets(
         UpcomingDates(pass.todayStr, pass.weekLater, pass.notes, pass.allTaskNotes,
                       pass.items),
         pass.notes, pass.allTaskNotes, pass.items),
     noSchedule |-> NoSchedule(pass.allTaskNotes)]

\* a pass that has reached the end of getTasksByCategory returns
Finished(pass) ==
    IF pass.pc = "finish" THEN [pass EXCEPT !.pc = "done", !.tasks = Gathered(pass)]
    ELSE pass

\* no render has been made
NoView == [component |-> 0, from |-> 0, shown |-> NoResult]

\* `this.taskListComponent.setTasks(tasks)` at the end of render(): the
\* component of the view at that moment is given the tasks of the pass
ViewAfter(view, pass) ==
    IF pass.pc = "done" THEN [view EXCEPT !.from = pass.seq, !.shown = pass.tasks]
    ELSE view

Pending(pass) == pass.pc \in {"daily", "items"}

\* the other passes that are pending see pass p start: they overlap
Overlapping(passes, p) ==
    [q \in 1..MaxPasses |->
        IF q # p /\ Pending(passes[q]) THEN [passes[q] EXCEPT !.overlapped = TRUE]
        ELSE passes[q]]

\* a change of the vault while a pass is pending
Unsettled(passes) ==
    [q \in 1..MaxPasses |->
        IF Pending(passes[q]) THEN [passes[q] EXCEPT !.stable = FALSE] ELSE passes[q]]

ViewInit ==
    /\ vault = {}
    /\ clock = 0
    /\ result = NoView
    /\ window = NoWindow
    /\ dateStr = Null
    /\ verdict = NoVerdict
    /\ input = NoChanges
    /\ parsed = [p \in 1..MaxPasses |-> IdlePass]

\* a document is created
CreateFile(f) ==
    /\ Cardinality(vault) < MaxViewFiles
    /\ \A g \in vault : g.id # f.id /\ g.path # f.path
    /\ vault' = vault \cup {f}
    /\ parsed' = Unsettled(parsed)
    /\ UNCHANGED <<clock, result, window, dateStr, verdict, input>>

\* a document is renamed: the TFile object gets the new path
Rename(f) ==
    LET basename == IF f.basename = ViewFiles[f.id].basename
                    THEN OtherBasename[f.id] ELSE ViewFiles[f.id].basename
    IN  /\ f \in vault
        /\ \A g \in vault : g.path # basename \o DotMd
        /\ vault' = (vault \ {f})
                        \cup {[f EXCEPT !.path = basename \o DotMd, !.basename = basename]}
        /\ input.changes < MaxChanges
        /\ input' = [changes |-> input.changes + 1]
        /\ parsed' = Unsettled(parsed)
        /\ UNCHANGED <<clock, result, window, dateStr, verdict>>

\* the content of a document is modified
Modify(f) ==
    /\ f \in vault
    /\ f.lines # <<>>
    /\ vault' = (vault \ {f})
                    \cup {[f EXCEPT !.lines = IF @ = ViewFiles[f.id].lines
                                              THEN OtherLines[f.id]
                                              ELSE ViewFiles[f.id].lines]}
    /\ input.changes < MaxChanges
    /\ input' = [changes |-> input.changes + 1]
    /\ parsed' = Unsettled(parsed)
    /\ UNCHANGED <<clock, result, window, dateStr, verdict>>

\* render(), from onOpen() or refresh(): the container is emptied, a new task
\* list component is created and getTasksByCategory() runs up to its first
\* read; without a read it returns and its tasks are set
StartRender(p) ==
    /\ parsed[p].pc = "idle"
    /\ LET seq == Cardinality({q \in 1..MaxPasses : parsed[q].pc # "idle"}) + 1
           pass == Finished(RunDaily(
                       [IdlePass EXCEPT
                           !.seq = seq,
                           !.todayStr = formatDate(Today(clock)),
                           !.weekLater = formatDate(addDays(Today(clock), UpcomingDays)),
                           !.allTaskNotes = TaskNotesOf(vault),
                           !.files = IdsOf(getMarkdownFiles(vault)),
                           !.k = 1,
                           !.seen = vault,
                           !.overlapped = \E q \in 1..MaxPasses : Pending(parsed[q])],
                       vault))
       IN  /\ parsed' = [Overlapping(parsed, p) EXCEPT ![p] = pass]
           /\ result' = ViewAfter([component |-> seq, from |-> 0, shown |-> NoResult], pass)
    /\ UNCHANGED <<vault, clock, window, dateStr, verdict, input>>

\* the read a pass awaits completes: the items of the document are built from
\* the content and the pass runs on to its next read or to its end; a read
\* that rejects rejects the pass, and render() with it
ReadDone(p) ==
    /\ Pending(parsed[p])
    /\ LET file == FileById(vault, parsed[p].files[parsed[p].k])
           items == ItemsRead(file, parsed[p].incompleteTasks)
           HasDate(item) == ~(Falsy(item.startDate) /\ Falsy(item.dueDate))
           pass ==
               IF ~file.readable THEN [parsed[p] EXCEPT !.pc = "rejected"]
               ELSE IF parsed[p].pc = "daily"
               THEN Finished(RunDaily(
                        [parsed[p] EXCEPT
                            !.notes = Append(NotesOf(parsed, p),
                                             [file |-> file.id, date |-> parsed[p].date,
                                              taskItems |-> items]),
                            !.k = @ + 1], vault))
               ELSE Finished(RunItems(
                        [parsed[p] EXCEPT
                            !.items = @ \o SelectSeq(items, HasDate),
                            !.k = @ + 1], vault))
       IN  /\ parsed' = [parsed EXCEPT ![p] = pass]
           /\ result' = ViewAfter(result, pass)
    /\ UNCHANGED <<vault, clock, window, dateStr, verdict, input>>

ViewNext ==
    \/ \E k \in 1..Len(ViewFiles) : CreateFile(ViewFiles[k])
    \/ \E f \in vault : Rename(f)
    \/ \E f \in vault : Modify(f)
    \/ \E p \in 1..MaxPasses : StartRender(p)
    \/ \E p \in 1..MaxPasses : ReadDone(p)

ViewSpec == ViewInit /\ [][ViewNext]_vars


(***************************************************************************)
(* Claims about the passes and the view, under ViewSpec.                   *)
(***************************************************************************)
\* the entries of a list with the path the document has in the vault v in
\* place of the TFile
ByPath(list, v) ==
    [i \in 1..Len(list) |-> [list[i] EXCEPT !.file = FileById(v, @).path]]

BucketsByPath(buckets, v) ==
    [i \in 1..Len(buckets) |->
        [date |-> buckets[i].date,
         taskItems |-> ByPath(buckets[i].taskItems, v),
         taskNotes |-> ByPath(buckets[i].taskNotes, v)]]

\* the categories of a pass as a pass over the vault v on its own returns them
TasksByPath(tasks, v) ==
    [todayStr |-> tasks.todayStr,
     weekLater |-> tasks.weekLater,
     allTaskNotes |-> ByPath(tasks.allTaskNotes, v),
     allDailyNotes |->
         [i \in 1..Len(tasks.allDailyNotes) |->
             [file |-> FileById(v, tasks.allDailyNotes[i].file).path,
              date |-> tasks.allDailyNotes[i].date,
              taskItems |-> ByPath(tasks.allDailyNotes[i].taskItems, v)]],
     allTaskItems |-> ByPath(tasks.allTaskItems, v),
     overdue |-> BucketsByPath(tasks.overdue, v),
     today |-> [taskItems |-> ByPath(tasks.today.taskItems, v),
                taskNotes |-> ByPath(tasks.today.taskNotes, v)],
     upcoming |-> BucketsByPath(tasks.upcoming, v),
     noSchedule |-> ByPath(tasks.noSchedule, v)]

\* C22: re-entrant passes do not corrupt each other: a pass that was pending
\* together with another pass, on a vault that did not change meanwhile,
\* returns what a pass over that vault returns when it is run alone.
C22_ReentrantPassesAsAlone ==
    \A p \in 1..MaxPasses :
        (parsed[p].pc = "done" /\ parsed[p].stable) =>
            TasksByPath(parsed[p].tasks, parsed[p].seen)
                = getTasksByCategory(parsed[p].seen, Today(clock), Today(clock))

\* two passes have returned that were pending together, each after a read,
\* on a vault that did not change meanwhile and holds entities
C22_Witness ==
    /\ \A p \in 1..MaxPasses :
           /\ parsed[p].pc = "done"
           /\ parsed[p].stable
           /\ parsed[p].overlapped
           /\ Len(parsed[p].tasks.allDailyNotes) > 0
           /\ Len(parsed[p].tasks.allTaskItems) > 0
    /\ \E p \in 1..MaxPasses : result.from = parsed[p].seq

\* the pass that was started last
Newest(p) == \A q \in 1..MaxPasses : parsed[q].seq <= parsed[p].seq

\* C24: a fresh request supersedes the previous one: once an earlier and a
\* later render have both completed, the task list on display is the result
\* of the pass that was started last, whichever completed first.
C24_NewestPassOnDisplay ==
    (\A p \in 1..MaxPasses : parsed[p].pc = "done") =>
        \A p \in 1..MaxPasses : Newest(p) => result.shown = parsed[p].tasks

\* what does hold: the task list on display is the result of the pass that
\* completed last.
C24_LastCompletedOnDisplay ==
    [][\A p \in 1..MaxPasses :
           ((StartRender(p) \/ ReadDone(p)) /\ parsed'[p].pc = "done") =>
               result'.from = parsed'[p].seq /\ result'.shown = parsed'[p].tasks]_vars

\* the earlier pass completed after the later one, with other tasks
C24_StaleCompletedLast ==
    /\ \A p \in 1..MaxPasses : parsed[p].pc = "done"
    /\ \E p, q \in 1..MaxPasses :
           /\ parsed[p].seq < parsed[q].seq
           /\ parsed[p].tasks # parsed[q].tasks
           /\ result.from = parsed[p].seq

\* no entry of the list is repeated: items by document and line, notes by
\* document
NoRepeat(list) ==
    \A i, j \in 1..Len(list) :
        (list[i].file = list[j].file /\ list[i].line = list[j].line) => i = j

NoRepeatedNote(list) ==
    \A i, j \in 1..Len(list) : list[i].file = list[j].file => i = j

NoRepeatIn(tasks) ==
    /\ \A b \in Range(tasks.overdue) \cup Range(tasks.upcoming) \cup {tasks.today} :
           NoRepeat(b.taskItems) /\ NoRepeatedNote(b.taskNotes)
    /\ NoRepeatedNote(tasks.noSchedule)

\* C26: within a single bucket of the result (a date of Overdue or Upcoming,
\* Today, No-Schedule) no note and no item (by document and line) occurs
\* more than once, also when documents are renamed or modified while the
\* reads of the pass are pending.
C26_NoEntityTwiceInBucket ==
    \A p \in 1..MaxPasses : parsed[p].pc = "done" => NoRepeatIn(parsed[p].tasks)

\* what does hold: the same for the passes during which the vault did not
\* change.
C26_HoldsOnStableVault ==
    \A p \in 1..MaxPasses :
        (parsed[p].pc = "done" /\ parsed[p].stable) => NoRepeatIn(parsed[p].tasks)

\* the same for the passes of Spec, which are not interleaved with anything:
\* among their entities are those whose startDate equals its dueDate.
C26_HoldsInUninterruptedPass ==
    Ran =>
        /\ \A b \in Buckets \cup {result.today} :
               NoRepeat(b.taskItems) /\ NoRepeatedNote(b.taskNotes)
        /\ NoRepeatedNote(result.noSchedule)


(***************************************************************************)
(* The calendar of the view (components/CalendarComponent.ts and the       *)
(* calendar section of JournaliteView.render): the component keeps a year  *)
(* and a month counted from 0; every handler ends by rendering the grid of *)
(* that month. by names the handler that rendered last.                    *)
(***************************************************************************)
MaxDays == 12

MaxTurns == 13

\* the view has not been rendered: this.calendarComponent is null
NoCalendar == [open |-> FALSE, year |-> 0, month |-> 0]

NotRendered == [run |-> FALSE, by |-> "none", out |-> <<>>]

\* now.getFullYear() and now.getMonth()
NowYear(c) == Today(c).year

NowMonth(c) == Today(c).month - 1

\* a faulty variant of Coalesce: `||` in place of `??`
CoalesceTruthy(present, value, now) == IF present /\ value # 0 THEN value ELSE now

\* initialYear ?? now.getFullYear(): the value unless it is undefined
Coalesce(present, value, now) == IF present THEN value ELSE now

\* CalendarComponent.render, as far as the grid goes
Rendered(by, year, month) ==
    [run |-> TRUE, by |-> by, out |-> getCalendarDays(year, month)]

\* the months between the month shown and January 2025, for the bound
Turns(calendar) == (calendar.year - 2025) * 12 + calendar.month

NavInit ==
    /\ vault = {}
    /\ clock = 0
    /\ result = NoResult
    /\ window = NoWindow
    /\ dateStr = Null
    /\ verdict = NoVerdict
    /\ input = NoCalendar
    /\ parsed = NotRendered

\* JournaliteView.render, from onOpen() or refresh(): the calendar is created
\* anew on the year and month of the calendar there was, or on the current
\* month when there was none
RenderView ==
    /\ input' = [open |-> TRUE,
                 year |-> Coalesce(input.open, input.year, NowYear(clock)),
                 month |-> Coalesce(input.open, input.month, NowMonth(clock))]
    /\ parsed' = Rendered("render", input'.year, input'.month)
    /\ UNCHANGED <<vault, clock, result, window, dateStr, verdict>>

\* CalendarComponent.prevMonth
prevMonth ==
    /\ input.open
    /\ Turns(input) > -MaxTurns
    /\ input' = IF input.month - 1 < 0
                THEN [input EXCEPT !.month = 11, !.year = @ - 1]
                ELSE [input EXCEPT !.month = @ - 1]
    /\ parsed' = Rendered("prevMonth", input'.year, input'.month)
    /\ UNCHANGED <<vault, clock, result, window, dateStr, verdict>>

\* CalendarComponent.nextMonth
nextMonth ==
    /\ input.open
    /\ Turns(input) < MaxTurns
    /\ input' = IF input.month + 1 > 11
                THEN [input EXCEPT !.month = 0, !.year = @ + 1]
                ELSE [input EXCEPT !.month = @ + 1]
    /\ parsed' = Rendered("nextMonth", input'.year, input'.month)
    /\ UNCHANGED <<vault, clock, result, window, dateStr, verdict>>

\* CalendarComponent.goToToday
goToToday ==
    /\ input.open
    /\ input' = [input EXCEPT !.year = NowYear(clock), !.month = NowMonth(clock)]
    /\ parsed' = Rendered("goToToday", input'.year, input'.month)
    /\ UNCHANGED <<vault, clock, result, window, dateStr, verdict>>

\* midnight passes
NextDayComes ==
    /\ clock < MaxDays
    /\ clock' = clock + 1
    /\ UNCHANGED <<vault, result, window, dateStr, verdict, input, parsed>>

NavNext ==
    \/ RenderView
    \/ prevMonth
    \/ nextMonth
    \/ goToToday
    \/ NextDayComes

NavSpec == NavInit /\ [][NavNext]_vars

(***************************************************************************)
(* Claims about the calendar navigation, under NavSpec.                    *)
(***************************************************************************)
\* the calendar month after a (year, month)
MonthAfter(calendar) ==
    IF calendar.month = 11 THEN [calendar EXCEPT !.year = @ + 1, !.month = 0]
    ELSE [calendar EXCEPT !.month = @ + 1]

\* C29: month stays in 0..11; nextMonth moves the month shown one calendar
\* month forward and prevMonth one backward, December and January changing
\* the year, so that nextMonth followed by prevMonth restores it; a refresh
\* of the view re-creates the calendar on the year and month it showed.
C29_NavigationByOneMonth ==
    [][/\ input'.open => input'.month \in 0..11
       /\ nextMonth => input' = MonthAfter(input)
       /\ prevMonth => MonthAfter(input') = input
       /\ (RenderView /\ input.open) => input' = input]_vars

\* the view was refreshed in February 2025 while it showed January 2026,
\* which is reached by turns from December to January only
C29_Witness ==
    /\ parsed.by = "render"
    /\ input.month = 0
    /\ input.year = 2026
    /\ NowMonth(clock) = 1


(***************************************************************************)
(* Completing an item from the sidebar (JournaliteView.handleTaskItemToggle)*)
(* The document is the sequence of its lines, content.split("\n"). The     *)
(* handler awaits vault.read(file), and then replaces the whole content    *)
(* with vault.modify(file, lines.join("\n")); the document can be edited   *)
(* by the user or by another plugin while the handler is suspended.        *)
(***************************************************************************)
MaxLines == 3

\* the lines a document is made of
LineTexts ==
    {<<"-", " ", "[", " ", "]", " ", "a">>,
     <<" ", " ", "-", " ", "[", "x", "]", " ", "b">>,
     <<"c">>}

Documents == UNION {[1..n -> LineTexts] : n \in 1..MaxLines}

\* the line numbers a click hands over
ClickedLines == -1..MaxLines

\* lineText.replace(/^(\s*-\s*)\[ \]/, "$1[x]")
CheckLine(lineText) ==
    LET i == SkipSpace(lineText, 1)
        j == SkipSpace(lineText, i + 1)
    IN  IF /\ i <= Len(lineText) /\ lineText[i] = "-"
           /\ j + 2 <= Len(lineText)
           /\ lineText[j] = "[" /\ lineText[j + 1] = " " /\ lineText[j + 2] = "]"
        THEN [lineText EXCEPT ![j + 1] = "x"]
        ELSE lineText

\* no toggle is under way
NoToggle == [pc |-> "idle", line |-> 0, lines |-> <<>>, wrote |-> FALSE, by |-> "none"]

ToggleInit ==
    /\ vault = {}
    /\ clock = 0
    /\ result = NoResult
    /\ window = NoWindow
    /\ dateStr = Null
    /\ verdict = NoVerdict
    /\ input \in Documents
    /\ parsed = NoToggle

\* the checkbox of a row is clicked: handleTaskItemToggle(file, line) is
\* entered and awaits the content; the read takes the content as it is
ClickCheckbox(line) ==
    /\ parsed.pc = "idle"
    /\ parsed' = [pc |-> "read", line |-> line, lines |-> input, wrote |-> FALSE,
                  by |-> "click"]
    /\ UNCHANGED <<vault, clock, result, window, dateStr, verdict, input>>

\* the handler resumes with the content it has read: it returns when the
\* line is out of range or is not changed by the replacement, and else
\* writes the lines it has read, with the line replaced, as the new content
ResumeToggle ==
    /\ parsed.pc = "read"
    /\ LET lines == parsed.lines
           line == parsed.line
           outOfRange == line < 0 \/ line >= Len(lines)
       IN  IF outOfRange \/ CheckLine(lines[line + 1]) = lines[line + 1]
           THEN /\ input' = input
                /\ parsed' = [parsed EXCEPT !.pc = "idle", !.by = "toggle"]
           ELSE /\ input' = [lines EXCEPT ![line + 1] = CheckLine(lines[line + 1])]
                /\ parsed' = [parsed EXCEPT !.pc = "idle", !.by = "toggle", !.wrote = TRUE]
    /\ UNCHANGED <<vault, clock, result, window, dateStr, verdict>>

\* the document is edited elsewhere: a line is replaced
EditLine(k, text) ==
    /\ k \in 1..Len(input)
    /\ input[k] # text
    /\ input' = [input EXCEPT ![k] = text]
    /\ parsed' = [parsed EXCEPT !.by = "edit"]
    /\ UNCHANGED <<vault, clock, result, window, dateStr, verdict>>

\* a line is inserted at the top of the document
InsertLine(text) ==
    /\ Len(input) < MaxLines
    /\ input' = <<text>> \o input
    /\ parsed' = [parsed EXCEPT !.by = "edit"]
    /\ UNCHANGED <<vault, clock, result, window, dateStr, verdict>>

\* the last line of the document is removed
RemoveLine ==
    /\ Len(input) > 1
    /\ input' = SubSeq(input, 1, Len(input) - 1)
    /\ parsed' = [parsed EXCEPT !.by = "edit"]
    /\ UNCHANGED <<vault, clock, result, window, dateStr, verdict>>

ToggleNext ==
    \/ \E line \in ClickedLines : ClickCheckbox(line)
    \/ ResumeToggle
    \/ \E k \in 1..MaxLines : \E text \in LineTexts : EditLine(k, text)
    \/ \E text \in LineTexts : InsertLine(text)
    \/ RemoveLine

ToggleSpec == ToggleInit /\ [][ToggleNext]_vars

(***************************************************************************)
(* Claims about the toggle, under ToggleSpec.                              *)
(***************************************************************************)
\* the line starts with an unchecked checkbox: "- [ ]" after its indentation
StartsUnchecked(lineText) ==
    \E i \in 1..Len(lineText) :
        /\ \A k \in 1..(i - 1) : lineText[k] = " "
        /\ i + 4 <= Len(lineText)
        /\ SubSeq(lineText, i, i + 4) = <<"-", " ", "[", " ", "]">>

\* the line with the blank of its checkbox replaced by x
Checked(lineText) ==
    LET i == CHOOSE i \in 1..Len(lineText) : lineText[i] = "["
    IN  [lineText EXCEPT ![i + 1] = "x"]

\* what the toggle of a line is to make of a document
Toggled(lines, line) ==
    IF line + 1 \in 1..Len(lines) /\ StartsUnchecked(lines[line + 1])
    THEN [lines EXCEPT ![line + 1] = Checked(lines[line + 1])]
    ELSE lines

\* C28: handleTaskItemToggle(file, line) changes at most the addressed line,
\* replacing its leading "- [ ]" by "- [x]"; it leaves the document as it is
\* when the line is out of range or does not start with an unchecked
\* checkbox; every other line keeps its current content, also when the
\* document was edited between the read and the write of the toggle.
C28_ToggleChangesAddressedLineOnly ==
    [][ResumeToggle => input' \in {input, Toggled(input, parsed.line)}]_vars

\* what does hold: a toggle whose read and write no edit comes between
\* makes of the document what the toggle of the line is to make of it.
C28_HoldsWithoutEditBetween ==
    [][(ResumeToggle /\ parsed.by = "click") => input' = Toggled(input, parsed.line)]_vars


(***************************************************************************)
(* Opening a daily note: DailyNoteService.openOrCreate.  The documents of  *)
(* the daily-note paths are in input, the calls in parsed.                 *)
(***************************************************************************)
MaxCalls == 2

\* the folder of the daily notes: the default setting, ""
DailyFolder == <<>>

\* `${folder}${dateStr}.md`, the folder followed by "/" when it is set
getDailyNotePath(folder, date) ==
    (IF folder # <<>> THEN folder \o <<"/">> ELSE <<>>)
        \o formatDate(date) \o <<".", "m", "d">>

\* the dates that are clicked
OpenDates == {[year |-> 2025, month |-> 1, day |-> 10],
              [year |-> 2025, month |-> 1, day |-> 11]}

OpenPaths == {getDailyNotePath(DailyFolder, date) : date \in OpenDates}

\* no document at the path; made counts the documents created at the path
NoDocument == [content |-> "none", made |-> 0]

\* the default content or the template with its dates replaced
generateContent(date) == "generated"

\* the call is not under way
NoCall == [pc |-> "idle", path |-> <<>>, content |-> "none"]

OpenInit ==
    /\ vault = {}
    /\ clock = 0
    /\ result = NoResult
    /\ window = NoWindow
    /\ dateStr = Null
    /\ verdict = NoVerdict
    /\ input = [path \in OpenPaths |-> NoDocument]
    /\ parsed = [c \in 1..MaxCalls |-> NoCall]

\* a date is clicked: openOrCreate(date) is entered, looks the path up and,
\* when no document is there, awaits generateContent(date); else it goes on
\* to open the document it has found
ClickDate(c, date) ==
    /\ parsed[c].pc = "idle"
    /\ LET path == getDailyNotePath(DailyFolder, date)
       IN  parsed' = [parsed EXCEPT ![c] =
               IF input[path].content = "none"
               THEN [pc |-> "generate", path |-> path, content |-> generateContent(date)]
               ELSE [pc |-> "open", path |-> path, content |-> "none"]]
    /\ UNCHANGED <<vault, clock, result, window, dateStr, verdict, input>>

\* the call resumes with the content: vault.create(path, content) makes the
\* document, and rejects when a document is at the path already; the
\* rejection ends the call with the error
CreateNote(c) ==
    /\ parsed[c].pc = "generate"
    /\ LET path == parsed[c].path
       IN  IF input[path].content = "none"
           THEN /\ input' = [input EXCEPT ![path] =
                       [content |-> parsed[c].content, made |-> input[path].made + 1]]
                /\ parsed' = [parsed EXCEPT ![c].pc = "open"]
           ELSE /\ input' = input
                /\ parsed' = [parsed EXCEPT ![c].pc = "failed"]
    /\ UNCHANGED <<vault, clock, result, window, dateStr, verdict>>

\* leaf.openFile(file): the call completes
OpenNote(c) ==
    /\ parsed[c].pc = "open"
    /\ parsed' = [parsed EXCEPT ![c].pc = "done"]
    /\ UNCHANGED <<vault, clock, result, window, dateStr, verdict, input>>

\* a document is written at a daily-note path from elsewhere
WriteNote(path) ==
    /\ input[path].content = "none"
    /\ input' = [input EXCEPT ![path] = [content |-> "written", made |-> input[path].made]]
    /\ UNCHANGED <<vault, clock, result, window, dateStr, verdict, parsed>>

OpenNext ==
    \/ \E c \in 1..MaxCalls : \E date \in OpenDates : ClickDate(c, date)
    \/ \E c \in 1..MaxCalls : CreateNote(c)
    \/ \E c \in 1..MaxCalls : OpenNote(c)
    \/ \E path \in OpenPaths : WriteNote(path)

OpenSpec == OpenInit /\ [][OpenNext]_vars

(***************************************************************************)
(* Claims about openOrCreate, under OpenSpec.                              *)
(***************************************************************************)
\* no step changes a document that exists
NoOverwrite ==
    [][\A path \in OpenPaths :
          input[path].content # "none" => input'[path] = input[path]]_vars

\* no call has ended with an error at a path whose document a call has made
NoCallFailed ==
    \A c \in 1..MaxCalls :
        parsed[c].pc = "failed" => input[parsed[c].path].content # "generated"

\* two completed calls for one date have opened the one document made at its
\* path, when none was written there from elsewhere
OneDocumentMade ==
    \A c, d \in 1..MaxCalls :
        (c # d /\ parsed[c].pc = "done" /\ parsed[d].pc = "done"
              /\ parsed[c].path = parsed[d].path)
            => /\ input[parsed[c].path].content # "none"
               /\ input[parsed[c].path].made <= 1

\* C30: openOrCreate(date) creates a document only when none exists at the
\* daily-note path and never overwrites an existing one; for every
\* interleaving of two calls for the same date, exactly one document is
\* created and both calls complete without error by opening it.
C30_OpenOrCreate == NoOverwrite /\ [](NoCallFailed /\ OneDocumentMade)

\* What holds in the code: a document is created only when none is at the
\* path, no existing one is overwritten, and no path has two documents made.
C30_CreatesOnlyWhenAbsent ==
    NoOverwrite /\ [](\A path \in OpenPaths : input[path].made <= 1)

\* A call that found no document and whose path is still free when it
\* resumes creates the document and does not fail.
C30_FreePathIsCreated ==
    [][\A c \in 1..MaxCalls :
          (CreateNote(c) /\ input[parsed[c].path].content = "none")
              => /\ parsed'[c].pc = "open"
                 /\ input'[parsed[c].path].content = parsed[c].content]_vars

\* both calls were for one date and one of them has ended with the error
C30_SecondCallFailed ==
    /\ parsed[1].pc = "failed" /\ parsed[2].pc \in {"open", "done"}
    /\ parsed[1].path = parsed[2].path
    /\ input[parsed[1].path].content = "generated"


(***************************************************************************)
(* The refresh on change notifications: the handlers that onload registers *)
(* and the debounced refreshView.  The plugin's state is in parsed.        *)
(***************************************************************************)
\* the timeout of debounce, 500 ms, in ticks of 250 ms
DebounceTicks == 2
MaxBurst == 3
MaxRefreshes == 2

\* "changed" is the notification of the metadata cache, the others the vault's
NotificationKinds == {"create", "delete", "rename", "modify", "changed"}

\* a markdown document, an image, a document without extension, and a folder
\* (a TAbstractFile that is no TFile and has no extension)
NotifiedFiles ==
    {[path |-> "a.md", isFile |-> TRUE, extension |-> "md"],
     [path |-> "b.png", isFile |-> TRUE, extension |-> "png"],
     [path |-> "LICENSE", isFile |-> TRUE, extension |-> ""],
     [path |-> "notes.md", isFile |-> FALSE, extension |-> "undefined"]}

\* the handlers call debouncedRefresh for every notification
WatchedAny(kind, file) == TRUE

\* the test of a handler: file instanceof TFile && file.extension === "md"
\* for the vault's notifications, file.extension === "md" for "changed"
Watched(kind, file) ==
    IF kind = "changed" THEN file.extension = "md"
    ELSE file.isFile /\ file.extension = "md"

\* after construction: no timer is pending (timer = -1), no view is known
NoTimer == -1

Loaded ==
    [timer |-> NoTimer, burst |-> 0, coalesced |-> 0, refreshes |-> 0,
     journaliteView |-> FALSE, leaves |-> 0, last |-> "none", path |-> "none"]

DebounceInit ==
    /\ vault = {}
    /\ clock = 0
    /\ result = NoResult
    /\ window = NoWindow
    /\ dateStr = Null
    /\ verdict = NoVerdict
    /\ input = NoChanges
    /\ parsed = Loaded

\* activateView: the panel is opened; the view factory stores the view
ActivateView ==
    /\ parsed.leaves = 0
    /\ parsed' = [parsed EXCEPT !.leaves = 1, !.journaliteView = TRUE, !.last = "open"]
    /\ UNCHANGED <<vault, clock, result, window, dateStr, verdict, input>>

\* the panel is closed; the plugin keeps the view it has stored
DetachView ==
    /\ parsed.leaves = 1
    /\ parsed' = [parsed EXCEPT !.leaves = 0, !.last = "close"]
    /\ UNCHANGED <<vault, clock, result, window, dateStr, verdict, input>>

\* debouncedRefresh(): the first call starts the timer, a call while the
\* timer is pending leaves it running (resetTimer is not set); burst counts
\* the calls the pending timer stands for
debouncedRefresh(plugin) ==
    IF plugin.timer = NoTimer
    THEN [plugin EXCEPT !.timer = DebounceTicks, !.burst = 1]
    ELSE [plugin EXCEPT !.burst = plugin.burst + 1]

\* a notification arrives: its handler tests the file and calls
\* debouncedRefresh
Notify(kind, file) ==
    /\ kind = "changed" => file.isFile
    /\ parsed.burst < MaxBurst
    /\ parsed.refreshes < MaxRefreshes
    /\ parsed' = [(IF Watched(kind, file) THEN debouncedRefresh(parsed) ELSE parsed)
                      EXCEPT !.last = kind, !.path = file.path]
    /\ UNCHANGED <<vault, clock, result, window, dateStr, verdict, input>>

\* 250 ms pass while the timer is pending
Wait ==
    /\ parsed.timer > 0
    /\ parsed' = [parsed EXCEPT !.timer = parsed.timer - 1, !.last = "wait"]
    /\ UNCHANGED <<vault, clock, result, window, dateStr, verdict, input>>

\* refreshView: the view is looked up among the leaves when none is stored,
\* and refreshed when there is one
refreshView(plugin) ==
    LET found == plugin.journaliteView \/ plugin.leaves > 0
    IN  [plugin EXCEPT !.journaliteView = found,
                       !.refreshes = IF found THEN plugin.refreshes + 1
                                     ELSE plugin.refreshes]

\* the timer expires: the debounced function runs once
Fire ==
    /\ parsed.timer = 0
    /\ parsed' = [refreshView(parsed) EXCEPT !.timer = NoTimer, !.burst = 0,
                                             !.coalesced = parsed.burst,
                                             !.last = "fire"]
    /\ UNCHANGED <<vault, clock, result, window, dateStr, verdict, input>>

DebounceNext ==
    \/ ActivateView
    \/ DetachView
    \/ \E kind \in NotificationKinds : \E file \in NotifiedFiles : Notify(kind, file)
    \/ Wait
    \/ Fire

DebounceSpec == DebounceInit /\ [][DebounceNext]_vars

(***************************************************************************)
(* Claims about the debounced refresh, under DebounceSpec.                 *)
(***************************************************************************)
\* the plugin has a view to refresh
HasView == parsed.journaliteView \/ parsed.leaves > 0

\* the notification is for a markdown document
ForMarkdown(file) == file.isFile /\ file.extension = "md"

\* a timer is pending exactly while notifications for markdown documents
\* are waiting for their refresh
PendingIffBurst == (parsed.timer # NoTimer) <=> (parsed.burst > 0)

\* C23: the notifications for markdown documents that arrive within one
\* debounce window result in exactly one refresh of the view: the first of
\* them starts the window, none of them refreshes, and the end of the window
\* refreshes the view once for all of them; a notification for a file that
\* is no markdown document starts no window and triggers no refresh.
C23_BurstRefreshesOnce ==
    /\ []PendingIffBurst
    /\ [][/\ \A kind \in NotificationKinds : \A file \in NotifiedFiles :
                Notify(kind, file) =>
                    /\ parsed'.refreshes = parsed.refreshes
                    /\ ForMarkdown(file) =>
                          /\ parsed'.burst = parsed.burst + 1
                          /\ parsed'.timer =
                                IF parsed.burst = 0 THEN DebounceTicks ELSE parsed.timer
                    /\ ~ForMarkdown(file) =>
                          /\ parsed'.timer = parsed.timer
                          /\ parsed'.burst = parsed.burst
          /\ (parsed'.refreshes # parsed.refreshes) =>
                /\ parsed.timer = 0 /\ parsed.burst >= 1
                /\ parsed'.refreshes = parsed.refreshes + 1
                /\ parsed'.timer = NoTimer /\ parsed'.burst = 0
          /\ (Fire /\ HasView) =>
                parsed'.refreshes = parsed.refreshes + 1]_vars

\* a burst of three notifications for the markdown document has been
\* answered by the one refresh of the view
C23_Witness ==
    /\ parsed.last = "fire"
    /\ parsed.coalesced = MaxBurst
    /\ parsed.refreshes = 1

=============================================================================
